---- MODULE Spec2Model ----
(***************************************************************************)
(* Client-side state machines of the rag_service front end.                *)
(*                                                                         *)
(* Every page is one Vue instance living in its own browsing context.  The *)
(* variable `page` says which instance a behaviour is about:               *)
(*   "app"      static/app.js               (single-page main view)        *)
(*   "rag"      static/pages/rag/app.js     (RAG page)                     *)
(*   "chat"     the chat page               (sessions in localStorage)     *)
(*   "settings" static/pages/settings/app.js                               *)
(*   "history"  static/pages/history/app.js                                *)
(*   "home"     the home page               (statistics and shortcuts)     *)
(* JavaScript handlers run to completion, so one action is one handler up  *)
(* to its first await, or one continuation after an await / a promise.     *)
(* Strings the code slices, trims or matches are sequences of one-letter   *)
(* strings; strings it only passes around are TLA+ strings.                *)
(***************************************************************************)
EXTENDS Integers, Sequences, FiniteSets, TLC

VARIABLES
    page,           \* which Vue instance this behaviour is about
    activePage,     \* AppState.activePage of the shell that embeds the pages
    mailbox,        \* messages posted to window.parent, not yet delivered
    server,         \* backend catalog: file name -> "none" | "file" | "indexed"
    uploadedFiles,  \* data().uploadedFiles: sequence of [name, indexed]
    selectedFiles,  \* data().selectedFiles: sequence of names
    selectAll,      \* data().selectAll
    fileSearch,     \* data().fileSearch
    selectedMethod, \* data().selectedMethod; selectedOption in static/app.js
    expandedMethod, \* data().expandedMethod; expandedOption in static/app.js
    messages,       \* data().messages: sequence of [type, content]
    inputMessage,   \* data().inputMessage
    sending,        \* data().sending      (static/app.js)
    loading,        \* data().loading      (rag page, chat page)
    net,            \* file requests in flight, in the order they were issued
    slots,          \* how many file requests this behaviour may have in flight
    chatReq,        \* the POST /chat request in flight, if any
    confirm,        \* the $confirm dialog that is open, if any
    notice,         \* the last this.$message notice shown
    unhandled,      \* a promise rejection no handler caught has happened
    testingApi,     \* data().testingApi  (settings page)
    apiStatus,      \* data().apiStatus   (settings page)
    chatHistories,  \* localStorage 'chatHistories': the sessions, in key order
    chatCurrentId,  \* localStorage 'chatCurrentId'
    chats,          \* data().chats            (chat page)
    currentChatId,  \* data().currentChatId    (chat page)
    currentMessages,\* data().currentMessages  (chat page)
    now,            \* Date.now()
    last            \* label of the last handler that ran (history variable)

fileVars == <<server, uploadedFiles, selectedFiles, selectAll, fileSearch, net,
              confirm>>
methodVars == <<selectedMethod, expandedMethod>>
shellVars == <<activePage, mailbox>>
chatVars == <<messages, inputMessage, sending, loading, chatReq>>
settingsVars == <<testingApi, apiStatus>>
storeVars == <<chatHistories, chatCurrentId, chats, currentChatId,
               currentMessages, now>>
\* the variables of the pages that have no file panel
elsewhere == <<settingsVars, storeVars>>
vars == <<page, slots, shellVars, methodVars, fileVars, chatVars, elsewhere, notice,
          unhandled, last>>

----------------------------------------------------------------------------
(* Bounds of the model *)

MaxInflight == 1
MaxUploads == 1
MaxMessages == 2
MaxClock == 1

----------------------------------------------------------------------------
(* Strings *)

\* String.prototype.toLowerCase on one letter
LowerChar(c) ==
    CASE c = "A" -> "a"
      [] c = "B" -> "b"
      [] c = "M" -> "m"
      [] c = "D" -> "d"
      [] OTHER -> c

\* String.prototype.toLowerCase
toLowerCase(s) == [i \in 1..Len(s) |-> LowerChar(s[i])]

\* String.prototype.includes
includes(s, sub) ==
    \E i \in 0..(Len(s) - Len(sub)) : SubSeq(s, i + 1, i + Len(sub)) = sub

RECURSIVE trimStart(_)
trimStart(s) == IF s # <<>> /\ Head(s) = " " THEN trimStart(Tail(s)) ELSE s

RECURSIVE trimEnd(_)
trimEnd(s) ==
    IF s # <<>> /\ s[Len(s)] = " " THEN trimEnd(SubSeq(s, 1, Len(s) - 1)) ELSE s

\* String.prototype.trim
trim(s) == trimEnd(trimStart(s))

\* Array.prototype.includes / indexOf(x) > -1 on a sequence
InSeq(x, seq) == \E i \in 1..Len(seq) : seq[i] = x

Range(seq) == {seq[i] : i \in 1..Len(seq)}

----------------------------------------------------------------------------
(* The files and the inputs of the model *)

FileA == <<"a", ".", "m", "d">>
FileB == <<"B", ".", "M", "D">>
Names == {FileA, FileB}
\* a file of a type that is not supported, and a file whose name has no dot
FileX == <<"a", ".", "x">>
FileBare == <<"m", "d">>
Files == Names \cup {FileX, FileBare}
\* the order in which the backend lists its directory
FileOrder == <<FileA, FileB>>

Queries == {<<>>, <<"b">>, <<" ">>}
Inputs == {<<>>, <<" ">>, <<"q", " ">>}

Outcomes == {"ok", "notok", "reject"}

\* JavaScript null, and a property an object literal does not have
JsNull == "<null>"
JsUndefined == "<undefined>"

\* three of the seventeen ids of the method catalog, and their names
Methods == {"option1", "option7", "option17"}
fullName(id) ==
    CASE id = "option1" -> "method: SimpleRAG"
      [] id = "option7" -> "method: Reranker"
      [] id = "option17" -> "method: Multi-Modal RAG"
      [] OTHER -> "method: SimpleRAG"

----------------------------------------------------------------------------
(* The backend, as the HTTP contract describes it *)

\* GET /uploads: { files: [{filename, size, type, indexed}] }
ServerList ==
    LET present(n) == server[n] # "none"
        listed == SelectSeq(FileOrder, present)
    IN  [i \in 1..Len(listed) |->
            [filename |-> listed[i], indexed |-> server[listed[i]] = "indexed"]]

\* POST /upload stores the file
ServerUpload(n) == [server EXCEPT ![n] = IF @ = "none" THEN "file" ELSE @]

\* POST /uploads/delete removes the files and, in cascade, their indexes
ServerDelete(filenames) ==
    [n \in Names |-> IF InSeq(n, filenames) THEN "none" ELSE server[n]]
ServerDeletedFiles(filenames) ==
    LET hit(n) == InSeq(n, filenames) /\ server[n] # "none"
    IN  SelectSeq(FileOrder, hit)
ServerDeletedIndexes(filenames) ==
    LET hit(n) == InSeq(n, filenames) /\ server[n] = "indexed"
    IN  SelectSeq(FileOrder, hit)

\* POST /index indexes the stored files it is given, except those in `failed`
ServerIndex(filenames, failed) ==
    [n \in Names |->
        IF InSeq(n, filenames) /\ n \notin failed /\ server[n] # "none"
        THEN "indexed" ELSE server[n]]

\* POST /index/delete removes the indexes of the files it is given
ServerDeleteIndex(filenames) ==
    [n \in Names |->
        IF InSeq(n, filenames) /\ server[n] = "indexed" THEN "file" ELSE server[n]]

----------------------------------------------------------------------------
(* Records of the model *)

NoConfirm == [kind |-> "none", count |-> 0, indexed |-> <<>>]
NoNotice == [type |-> "none", text |-> "none", indexes |-> <<>>, files |-> <<>>]
Notice(type, text) == [type |-> type, text |-> text, indexes |-> <<>>, files |-> <<>>]
NoChatReq == [active |-> FALSE, message |-> <<>>, rag_method |-> "none",
              at |-> 0]
\* what the last step was: the handler, how it ended and, for a chat reply, the
\* body of the response (a history variable)
NoResult == [message |-> <<>>, sources |-> <<>>, source_type |-> "none"]
Label(op, out) == [op |-> op, out |-> out, result |-> NoResult]

\* a request of the file panel: GET /uploads, POST /index, /index/delete,
\* /uploads/delete, /upload.  History fields, for the GET /uploads that follows
\* another request: `deleted`, the files a delete removed; `indexed` and
\* `failed`, the files a POST /index reported as indexed and as failed.
\* For a GET /uploads: `served` and `catalog`, whether the backend has built
\* the response and the list it holds; `newer`, the list a refresh issued
\* later has already put on the page, as a sequence of one element (empty
\* when none has).
Request(kind, filenames) ==
    [kind |-> kind, filenames |-> filenames, deleted |-> {}, indexed |-> {},
     failed |-> {}, served |-> FALSE, catalog |-> <<>>, newer |-> <<>>]

\* the GET /uploads that follows a POST /index, with what that POST reported
AfterIndex(netv, filenames, failed) ==
    [netv EXCEPT ![Len(netv)].indexed = Range(filenames) \ failed,
                 ![Len(netv)].failed = failed]

\* result.failed_files.map(f => f.filename), in the order of the response
failedNames(failed) ==
    LET hit(n) == n \in failed
    IN  SelectSeq(FileOrder, hit)

RemoveAt(seq, i) == SubSeq(seq, 1, i - 1) \o SubSeq(seq, i + 1, Len(seq))

----------------------------------------------------------------------------
(* static/app.js: the file panel *)

\* computed filteredFiles
filteredFiles ==
    IF trim(fileSearch) = <<>> THEN uploadedFiles
    ELSE LET search == toLowerCase(fileSearch)
             match(file) == includes(toLowerCase(file.name), search)
         IN  SelectSeq(uploadedFiles, match)

NamesOf(files) == [i \in 1..Len(files) |-> files[i].name]

\* the uploads of this behaviour so far, finished or in flight
Uploads ==
    Len(SelectSeq(messages, LAMBDA m : m.content.kind \in {"uploaded", "upload failed"}))
        + Len(SelectSeq(net, LAMBDA r : r.kind = "upload"))

\* addMessage(type, content)
addMessage(msgs, type, content) == Append(msgs, [type |-> type, content |-> content])

\* the content of the notices about a file
FileContent(kind, name) ==
    [kind |-> kind, text |-> name, marker |-> "none", sources |-> <<>>]

\* the greeting every page starts its message list with
Greeting ==
    [type |-> "bot",
     content |-> [kind |-> "greeting", text |-> <<>>, marker |-> "none",
                  sources |-> <<>>]]

\* el-input v-model="fileSearch"
setSearch(query) ==
    /\ page \in {"app", "rag"}
    /\ confirm = NoConfirm
    /\ fileSearch' = query
    /\ last' = Label("setSearch", "done")
    /\ UNCHANGED <<page, slots, shellVars, methodVars, elsewhere, server,
                   uploadedFiles, selectedFiles, selectAll, net, confirm,
                   chatVars, notice, unhandled>>

\* handleFileSelectChange(val): of the two methods of that name in the object
\* literal the later one (lines 125-127) is the one the instance has; it logs.
handleFileSelectChange(val) == selectAll' = selectAll

\* el-checkbox-group v-model="selectedFiles" @change="handleFileSelectChange"
toggle(name) ==
    /\ page = "app"
    /\ confirm = NoConfirm
    /\ InSeq(name, NamesOf(filteredFiles))
    /\ selectedFiles' =
          IF InSeq(name, selectedFiles)
          THEN SelectSeq(selectedFiles, LAMBDA n : n # name)
          ELSE Append(selectedFiles, name)
    /\ handleFileSelectChange(selectedFiles')
    /\ last' = Label("toggle", "done")
    /\ UNCHANGED <<page, slots, shellVars, methodVars, elsewhere, server,
                   uploadedFiles, fileSearch, net, confirm, chatVars, notice,
                   unhandled>>

\* handleSelectAll(val)
handleSelectAll(val) ==
    selectedFiles' = IF val THEN NamesOf(filteredFiles) ELSE <<>>

\* el-checkbox v-model="selectAll" @change="handleSelectAll"
setSelectAll(val) ==
    /\ page = "app"
    /\ confirm = NoConfirm
    /\ selectAll' = val
    /\ handleSelectAll(val)
    /\ last' = Label("handleSelectAll", "done")
    /\ UNCHANGED <<page, slots, shellVars, methodVars, elsewhere, server,
                   uploadedFiles, fileSearch, net, confirm, chatVars, notice,
                   unhandled>>

\* loadUploadedFiles() up to its await: GET /uploads is issued
loadUploadedFiles(netv, deleted) ==
    Append(netv, [Request("list", <<>>) EXCEPT !.deleted = deleted])

\* the backend builds the response of a GET /uploads that is in flight
serveList(i) ==
    /\ page = "app"
    /\ i \in 1..Len(net)
    /\ net[i].kind = "list"
    /\ ~net[i].served
    /\ net' = [net EXCEPT ![i].served = TRUE, ![i].catalog = ServerList]
    /\ last' = Label("GET /uploads", "served")
    /\ UNCHANGED <<page, slots, shellVars, methodVars, elsewhere, server,
                   uploadedFiles, selectedFiles, selectAll, fileSearch, confirm,
                   chatVars, notice, unhandled>>

\* the refreshes issued before request i that are still in flight learn what
\* request i put on the page
Superseded(netv, i, files) ==
    [k \in 1..Len(netv) |->
        IF k < i /\ netv[k].kind = "list" THEN [netv[k] EXCEPT !.newer = <<files>>]
        ELSE netv[k]]

\* loadUploadedFiles() after its await; a response the backend has not built
\* earlier is built as it is delivered
loadUploadedFilesDone(i, out) ==
    /\ page = "app"
    /\ i \in 1..Len(net)
    /\ net[i].kind = "list"
    /\ IF out = "ok"
       THEN LET files == IF net[i].served THEN net[i].catalog ELSE ServerList
            IN  /\ uploadedFiles' =
                      [k \in 1..Len(files) |->
                          [name |-> files[k].filename,
                           indexed |-> files[k].indexed]]
                /\ net' = RemoveAt(Superseded(net, i, uploadedFiles'), i)
                /\ selectedFiles' = <<>>
                /\ selectAll' = FALSE
       ELSE /\ net' = RemoveAt(net, i)
            /\ UNCHANGED <<uploadedFiles, selectedFiles, selectAll>>
    /\ last' = Label("loadUploadedFiles", out)
    /\ UNCHANGED <<page, slots, shellVars, methodVars, elsewhere, server, fileSearch,
                   confirm, chatVars, notice, unhandled>>

\* file.name.split('.').pop(): what follows the last dot, the whole name when
\* it has no dot
lastSegment(s) ==
    LET dots == {i \in 1..Len(s) : s[i] = "."}
    IN  IF dots = {} THEN s
        ELSE SubSeq(s, (CHOOSE i \in dots : \A j \in dots : j <= i) + 1, Len(s))

allowedExtensions ==
    {<<".", "t", "x", "t">>, <<".", "m", "d">>, <<".", "c", "s", "v">>,
     <<".", "p", "d", "f">>, <<".", "d", "o", "c">>, <<".", "d", "o", "c", "x">>,
     <<".", "x", "l", "s">>, <<".", "x", "l", "s", "x">>}

\* beforeUpload(file): false, after an error notice, when the extension is not
\* an allowed one
beforeUpload(name) ==
    LET fileExt == <<".">> \o toLowerCase(lastSegment(name))
    IN  fileExt \in allowedExtensions

\* el-upload :before-upload="beforeUpload": POST /upload is issued
upload(name) ==
    /\ page = "app"
    /\ confirm = NoConfirm
    /\ IF beforeUpload(name)
       THEN /\ Len(net) < slots
            /\ Uploads < MaxUploads
            /\ net' = Append(net, Request("upload", <<name>>))
            /\ last' = [op |-> "beforeUpload", out |-> "done",
                        result |-> NoResult, name |-> name]
            /\ UNCHANGED notice
       ELSE /\ notice' = Notice("error", "unsupported file type")
            /\ last' = [op |-> "beforeUpload", out |-> "rejected",
                        result |-> NoResult, name |-> name]
            /\ UNCHANGED net
    /\ UNCHANGED <<page, slots, shellVars, methodVars, elsewhere, server,
                   uploadedFiles, selectedFiles, selectAll, fileSearch,
                   confirm, chatVars, unhandled>>

\* handleUploadSuccess(response, file, fileList)
handleUploadSuccess(i) ==
    /\ page = "app"
    /\ i \in 1..Len(net)
    /\ net[i].kind = "upload"
    /\ net' = RemoveAt(net, i)
    /\ server' = ServerUpload(net[i].filenames[1])
    /\ notice' = Notice("success", "uploaded")
    /\ uploadedFiles' =
          Append(uploadedFiles, [name |-> net[i].filenames[1], indexed |-> FALSE])
    /\ messages' =
          addMessage(messages, "bot", FileContent("uploaded", net[i].filenames[1]))
    /\ selectAll' = FALSE
    /\ selectedFiles' = <<>>
    /\ last' = Label("handleUploadSuccess", "ok")
    /\ UNCHANGED <<page, slots, shellVars, methodVars, elsewhere, fileSearch, confirm,
                   inputMessage, sending, loading, chatReq, unhandled>>

\* handleUploadError(err, file, fileList)
handleUploadError(i) ==
    /\ page = "app"
    /\ i \in 1..Len(net)
    /\ net[i].kind = "upload"
    /\ net' = RemoveAt(net, i)
    /\ notice' = Notice("error", "upload failed")
    /\ messages' =
          addMessage(messages, "bot",
                     FileContent("upload failed", net[i].filenames[1]))
    /\ last' = Label("handleUploadError", "reject")
    /\ UNCHANGED <<page, slots, shellVars, methodVars, elsewhere, server,
                   uploadedFiles, selectedFiles, selectAll, fileSearch,
                   confirm, inputMessage, sending, loading, chatReq,
                   unhandled>>

\* handleIndexClick() up to fetch('/index')
handleIndexClick ==
    /\ page = "app"
    /\ confirm = NoConfirm
    /\ IF Len(selectedFiles) = 0
       THEN /\ notice' = Notice("warning", "select files first")
            /\ last' = Label("handleIndexClick", "empty")
            /\ UNCHANGED net
       ELSE /\ Len(net) < slots
            /\ notice' = Notice("info", "indexing")
            /\ net' = Append(net, Request("index", selectedFiles))
            /\ last' = Label("handleIndexClick", "sent")
    /\ UNCHANGED <<page, slots, shellVars, methodVars, elsewhere, server,
                   uploadedFiles, selectedFiles, selectAll, fileSearch,
                   confirm, chatVars, unhandled>>

\* handleIndexClick(): the .then / .catch chain on the response of POST /index
handleIndexClickDone(i, out, failed) ==
    /\ page = "app"
    /\ i \in 1..Len(net)
    /\ net[i].kind = "index"
    /\ IF out = "ok"
       THEN /\ failed \subseteq Range(net[i].filenames)
            /\ \A n \in Range(net[i].filenames) :
                  server[n] = "none" => n \in failed
            /\ server' = ServerIndex(net[i].filenames, failed)
            /\ notice' = IF failed # {}
                         THEN [Notice("warning", "some files failed") EXCEPT
                                  !.files = failedNames(failed)]
                         ELSE Notice("success", "result.message")
            /\ net' = AfterIndex(loadUploadedFiles(RemoveAt(net, i), {}),
                                 net[i].filenames, failed)
            /\ last' = Label("handleIndexClick", out)
       ELSE /\ failed = {}
            /\ notice' = Notice("error", "index failed")
            /\ net' = RemoveAt(net, i)
            /\ last' = Label("handleIndexClick", out)
            /\ UNCHANGED server
    /\ UNCHANGED <<page, slots, shellVars, methodVars, elsewhere, uploadedFiles,
                   selectedFiles, selectAll, fileSearch, confirm, chatVars,
                   unhandled>>

\* handleDeleteIndexClick() up to fetch('/index/delete')
handleDeleteIndexClick ==
    /\ page = "app"
    /\ confirm = NoConfirm
    /\ IF Len(selectedFiles) = 0
       THEN /\ notice' = Notice("warning", "select files first")
            /\ last' = Label("handleDeleteIndexClick", "empty")
            /\ UNCHANGED net
       ELSE /\ Len(net) < slots
            /\ net' = Append(net, Request("deleteIndex", selectedFiles))
            /\ last' = Label("handleDeleteIndexClick", "sent")
            /\ UNCHANGED notice
    /\ UNCHANGED <<page, slots, shellVars, methodVars, elsewhere, server,
                   uploadedFiles, selectedFiles, selectAll, fileSearch,
                   confirm, chatVars, unhandled>>

\* handleDeleteIndexClick(): the .then / .catch chain on the response
handleDeleteIndexClickDone(i, out) ==
    /\ page = "app"
    /\ i \in 1..Len(net)
    /\ net[i].kind = "deleteIndex"
    /\ IF out = "ok"
       THEN /\ server' = ServerDeleteIndex(net[i].filenames)
            /\ notice' = Notice("success", "result.message")
            /\ net' = loadUploadedFiles(RemoveAt(net, i), {})
       ELSE /\ notice' = Notice("error", "delete index failed")
            /\ net' = RemoveAt(net, i)
            /\ UNCHANGED server
    /\ last' = Label("handleDeleteIndexClick", out)
    /\ UNCHANGED <<page, slots, shellVars, methodVars, elsewhere, uploadedFiles,
                   selectedFiles, selectAll, fileSearch, confirm, chatVars,
                   unhandled>>

\* handleDeleteClick() up to this.$confirm(...)
handleDeleteClick ==
    /\ page = "app"
    /\ confirm = NoConfirm
    /\ IF Len(selectedFiles) = 0
       THEN /\ notice' = Notice("warning", "select files first")
            /\ last' = Label("handleDeleteClick", "empty")
            /\ UNCHANGED confirm
       ELSE /\ LET withIndex(f) == InSeq(f.name, selectedFiles) /\ f.indexed
                   filesWithIndex == NamesOf(SelectSeq(uploadedFiles, withIndex))
               \* `names` is the selection the prompt was built from
               IN  confirm' = [kind |-> "delete", count |-> Len(selectedFiles),
                               indexed |-> filesWithIndex,
                               names |-> selectedFiles]
            /\ last' = Label("handleDeleteClick", "prompt")
            /\ UNCHANGED notice
    /\ UNCHANGED <<page, slots, shellVars, methodVars, elsewhere, server,
                   uploadedFiles, selectedFiles, selectAll, fileSearch, net,
                   chatVars, unhandled>>

\* handleDeleteClick(): the prompt is confirmed, fetch('/uploads/delete')
handleDeleteClickConfirmed ==
    /\ page = "app"
    /\ confirm.kind = "delete"
    /\ Len(net) < slots
    /\ confirm' = NoConfirm
    /\ net' = Append(net, Request("delete", selectedFiles))
    /\ last' = Label("handleDeleteClick", "sent")
    /\ UNCHANGED <<page, slots, shellVars, methodVars, elsewhere, server,
                   uploadedFiles, selectedFiles, selectAll, fileSearch,
                   chatVars, notice, unhandled>>

\* handleDeleteClick(): the prompt is dismissed, .catch(() => {})
handleDeleteClickCancelled ==
    /\ page = "app"
    /\ confirm.kind = "delete"
    /\ confirm' = NoConfirm
    /\ last' = Label("handleDeleteClick", "cancelled")
    /\ UNCHANGED <<page, slots, shellVars, methodVars, elsewhere, server,
                   uploadedFiles, selectedFiles, selectAll, fileSearch, net,
                   chatVars, notice, unhandled>>

\* handleDeleteClick(): after the await of fetch('/uploads/delete')
handleDeleteClickDone(i, out) ==
    /\ page = "app"
    /\ i \in 1..Len(net)
    /\ net[i].kind = "delete"
    /\ IF out = "ok"
       THEN /\ server' = ServerDelete(net[i].filenames)
            /\ notice' = [type |-> "success", text |-> "result.message",
                          indexes |-> ServerDeletedIndexes(net[i].filenames),
                          files |-> ServerDeletedFiles(net[i].filenames)]
            /\ selectedFiles' = <<>>
            /\ selectAll' = FALSE
            /\ net' = loadUploadedFiles(RemoveAt(net, i),
                                        Range(ServerDeletedFiles(net[i].filenames)))
            /\ last' = Label("handleDeleteClick", out)
       ELSE /\ notice' = Notice("error", "delete failed")
            /\ net' = RemoveAt(net, i)
            /\ last' = Label("handleDeleteClick", out)
            /\ UNCHANGED <<server, selectedFiles, selectAll>>
    /\ UNCHANGED <<page, slots, shellVars, methodVars, elsewhere, uploadedFiles,
                   fileSearch, confirm, chatVars, unhandled>>

\* toggleOption(option), lines 64-67: the option is selected, and collapsed
\* if it was the expanded one
toggleOption(option) ==
    /\ page = "app"
    /\ confirm = NoConfirm
    /\ selectedMethod' = option
    /\ expandedMethod' = IF expandedMethod = option THEN JsNull ELSE option
    /\ last' = Label("toggleOption", option)
    /\ UNCHANGED <<page, slots, shellVars, fileVars, chatVars, elsewhere, notice,
                   unhandled>>

----------------------------------------------------------------------------
(* static/app.js: the chat panel *)

ChatResults ==
    [message : {<<"r">>},
     sources : {<<>>, <<"s1", "s2">>},
     source_type : {"local", "general", "network", "absent"}]

Content(kind, text, marker, sources) ==
    [kind |-> kind, text |-> text, marker |-> marker, sources |-> sources]

\* the fixed text of the catch block, line 290
Apology == Content("apology", <<>>, "none", <<>>)

\* sendMessage() as it would be with the guard `if (!message) return`: the
\* sending flag is not consulted
sendMessage_unguarded(typed) ==
    /\ page = "app"
    /\ confirm = NoConfirm
    /\ LET message == trim(typed)
       IN  IF message = <<>>
           THEN /\ inputMessage' = typed
                /\ last' = Label("sendMessage", "dropped")
                /\ UNCHANGED <<messages, sending, chatReq>>
           ELSE /\ Len(messages) <= MaxMessages
                /\ LET shown == addMessage(messages, "user",
                                           Content("user", message, "none", <<>>))
                   IN  /\ messages' = shown
                       /\ chatReq' = [active |-> TRUE, message |-> message,
                                      rag_method |-> selectedMethod, at |-> Len(shown)]
                /\ inputMessage' = <<>>
                /\ sending' = TRUE
                /\ last' = Label("sendMessage", "sent")
    /\ UNCHANGED <<page, slots, shellVars, methodVars, elsewhere, fileVars, loading,
                   notice, unhandled>>

\* sendMessage() with `typed` in the input box (el-input v-model="inputMessage"),
\* up to its await: the guard, addMessage('user', message), the sending flag,
\* then fetch('/chat'); `at` is how many messages there were when fetch was
\* called.
sendMessage(typed) ==
    /\ page = "app"
    /\ confirm = NoConfirm
    /\ LET message == trim(typed)
       IN  IF message = <<>> \/ sending
           THEN /\ inputMessage' = typed
                /\ last' = Label("sendMessage", "dropped")
                /\ UNCHANGED <<messages, sending, chatReq>>
           ELSE /\ Len(messages) <= MaxMessages
                /\ LET shown == addMessage(messages, "user",
                                           Content("user", message, "none", <<>>))
                   IN  /\ messages' = shown
                       /\ chatReq' = [active |-> TRUE, message |-> message,
                                      rag_method |-> selectedMethod, at |-> Len(shown)]
                /\ inputMessage' = <<>>
                /\ sending' = TRUE
                /\ last' = Label("sendMessage", "sent")
    /\ UNCHANGED <<page, slots, shellVars, methodVars, elsewhere, fileVars, loading,
                   notice, unhandled>>

\* lines 276-284: the answer with its provenance
fullContent(result) ==
    IF Len(result.sources) > 0
    THEN IF result.source_type = "local"
         THEN Content("reply", result.message, "sources:", result.sources)
         ELSE Content("reply", result.message, "source: network", <<>>)
    ELSE IF result.source_type = "general"
         THEN Content("reply", result.message, "source: general", <<>>)
         ELSE Content("reply", result.message, "none", <<>>)

\* sendMessage() after its await as it would be without the finally block: the
\* flag is cleared at the end of the try block only
sendMessageDone_noFinally(out, result) ==
    /\ page = "app"
    /\ chatReq.active
    /\ IF out = "ok"
       THEN /\ messages' = addMessage(messages, "bot", fullContent(result))
            /\ sending' = FALSE
            /\ UNCHANGED notice
       ELSE /\ notice' = Notice("error", "chat failed")
            /\ messages' = addMessage(messages, "bot", Apology)
            /\ UNCHANGED sending
    /\ chatReq' = NoChatReq
    /\ last' = [Label("sendMessage", out) EXCEPT
                  !.result = IF out = "ok" THEN result ELSE NoResult]
    /\ UNCHANGED <<page, slots, shellVars, methodVars, elsewhere, fileVars,
                   inputMessage, loading, unhandled>>

\* sendMessage() after its await: try / catch / finally
sendMessageDone(out, result) ==
    /\ page = "app"
    /\ chatReq.active
    /\ IF out = "ok"
       THEN /\ messages' = addMessage(messages, "bot", fullContent(result))
            /\ UNCHANGED notice
       ELSE /\ notice' = Notice("error", "chat failed")
            /\ messages' = addMessage(messages, "bot", Apology)
    /\ sending' = FALSE
    /\ chatReq' = NoChatReq
    /\ last' = [Label("sendMessage", out) EXCEPT
                  !.result = IF out = "ok" THEN result ELSE NoResult]
    /\ UNCHANGED <<page, slots, shellVars, methodVars, elsewhere, fileVars,
                   inputMessage, loading, unhandled>>

----------------------------------------------------------------------------
(* static/pages/rag/app.js: the file panel *)

\* toggleMethod(methodId) as it would be if collapsing also dropped the
\* selection
rag_toggleMethod_deselect(methodId) ==
    /\ page = "rag"
    /\ confirm = NoConfirm
    /\ IF expandedMethod = methodId
       THEN /\ expandedMethod' = JsNull
            /\ selectedMethod' = JsNull
       ELSE /\ expandedMethod' = methodId
            /\ selectedMethod' = methodId
    /\ last' = [op |-> "toggleMethod", out |-> methodId, result |-> NoResult,
                after |-> last.op]
    /\ UNCHANGED <<page, slots, shellVars, fileVars, chatVars, elsewhere, notice,
                   unhandled>>

\* toggleMethod(methodId): collapses the expanded method, or expands and
\* selects another one; `after` is the handler that ran before this one
rag_toggleMethod(methodId) ==
    /\ page = "rag"
    /\ confirm = NoConfirm
    /\ IF expandedMethod = methodId
       THEN /\ expandedMethod' = JsNull
            /\ UNCHANGED selectedMethod
       ELSE /\ expandedMethod' = methodId
            /\ selectedMethod' = methodId
    /\ last' = [op |-> "toggleMethod", out |-> methodId, result |-> NoResult,
                after |-> last.op]
    /\ UNCHANGED <<page, slots, shellVars, fileVars, chatVars, elsewhere, notice,
                   unhandled>>

\* selectMethod(methodId) as it would be without its second assignment: the
\* method is selected and the expansion is left as it was
rag_selectMethod_selectOnly(methodId) ==
    /\ page = "rag"
    /\ confirm = NoConfirm
    /\ selectedMethod' = methodId
    /\ expandedMethod' = expandedMethod
    /\ last' = Label("selectMethod", methodId)
    /\ UNCHANGED <<page, slots, shellVars, fileVars, chatVars, elsewhere, notice,
                   unhandled>>

\* selectMethod(methodId)
rag_selectMethod(methodId) ==
    /\ page = "rag"
    /\ confirm = NoConfirm
    /\ selectedMethod' = methodId
    /\ expandedMethod' = methodId
    /\ last' = Label("selectMethod", methodId)
    /\ UNCHANGED <<page, slots, shellVars, fileVars, chatVars, elsewhere, notice,
                   unhandled>>


\* filteredFiles as it would be without toLowerCase() on the file name: the
\* match is case-sensitive
rag_filteredFiles_caseSensitive ==
    IF trim(fileSearch) = <<>> THEN uploadedFiles
    ELSE LET search == toLowerCase(fileSearch)
             match(file) == includes(file.name, search)
         IN  SelectSeq(uploadedFiles, match)

\* computed filteredFiles
rag_filteredFiles ==
    IF trim(fileSearch) = <<>> THEN uploadedFiles
    ELSE LET search == toLowerCase(fileSearch)
             match(file) == includes(toLowerCase(file.name), search)
         IN  SelectSeq(uploadedFiles, match)

\* toggleFileSelection(fileName), called from the rows of the filtered list
rag_toggleFileSelection(fileName) ==
    /\ page = "rag"
    /\ confirm = NoConfirm
    /\ InSeq(fileName, NamesOf(rag_filteredFiles))
    /\ selectedFiles' =
          IF InSeq(fileName, selectedFiles)
          THEN LET index == CHOOSE k \in 1..Len(selectedFiles) :
                               /\ selectedFiles[k] = fileName
                               /\ \A j \in 1..(k - 1) : selectedFiles[j] # fileName
               IN  RemoveAt(selectedFiles, index)
          ELSE Append(selectedFiles, fileName)
    /\ selectAll' = (Len(selectedFiles') = Len(rag_filteredFiles))
    /\ last' = [op |-> "toggleFileSelection", out |-> "done",
                result |-> NoResult, name |-> fileName]
    /\ UNCHANGED <<page, slots, shellVars, methodVars, elsewhere, server,
                   uploadedFiles, fileSearch, net, confirm, chatVars, notice,
                   unhandled>>

\* handleSelectAll(val)
rag_handleSelectAll(val) ==
    selectedFiles' = IF val THEN NamesOf(rag_filteredFiles) ELSE <<>>

\* el-checkbox v-model="selectAll" @change="handleSelectAll"
rag_setSelectAll(val) ==
    /\ page = "rag"
    /\ confirm = NoConfirm
    /\ selectAll' = val
    /\ rag_handleSelectAll(val)
    /\ last' = Label("handleSelectAll", "done")
    /\ UNCHANGED <<page, slots, shellVars, methodVars, elsewhere, server,
                   uploadedFiles, fileSearch, net, confirm, chatVars, notice,
                   unhandled>>

\* loadUploadedFiles() after its await
rag_loadUploadedFilesDone(i, out) ==
    /\ page = "rag"
    /\ i \in 1..Len(net)
    /\ net[i].kind = "list"
    /\ net' = RemoveAt(net, i)
    /\ IF out = "ok"
       THEN uploadedFiles' =
               [k \in 1..Len(ServerList) |->
                   [name |-> ServerList[k].filename,
                    indexed |-> ServerList[k].indexed]]
       ELSE UNCHANGED uploadedFiles
    /\ last' = Label("loadUploadedFiles", out)
    /\ UNCHANGED <<page, slots, shellVars, methodVars, elsewhere, server,
                   selectedFiles, selectAll, fileSearch, confirm, chatVars,
                   notice, unhandled>>

\* el-upload :before-upload="beforeUpload": POST /upload is issued
rag_upload(name) ==
    /\ page = "rag"
    /\ confirm = NoConfirm
    /\ IF beforeUpload(name)
       THEN /\ Len(net) < slots
            /\ Uploads < MaxUploads
            /\ net' = Append(net, Request("upload", <<name>>))
            /\ last' = [op |-> "beforeUpload", out |-> "done",
                        result |-> NoResult, name |-> name]
            /\ UNCHANGED notice
       ELSE /\ notice' = Notice("error", "unsupported file type")
            /\ last' = [op |-> "beforeUpload", out |-> "rejected",
                        result |-> NoResult, name |-> name]
            /\ UNCHANGED net
    /\ UNCHANGED <<page, slots, shellVars, methodVars, elsewhere, server,
                   uploadedFiles, selectedFiles, selectAll, fileSearch,
                   confirm, chatVars, unhandled>>

\* handleUploadSuccess(response, file)
rag_handleUploadSuccess(i) ==
    /\ page = "rag"
    /\ i \in 1..Len(net)
    /\ net[i].kind = "upload"
    /\ net' = RemoveAt(net, i)
    /\ server' = ServerUpload(net[i].filenames[1])
    /\ notice' = Notice("success", "uploaded")
    /\ uploadedFiles' =
          Append(uploadedFiles, [name |-> net[i].filenames[1], indexed |-> FALSE])
    /\ messages' =
          addMessage(messages, "bot", FileContent("uploaded", net[i].filenames[1]))
    /\ last' = Label("handleUploadSuccess", "ok")
    /\ UNCHANGED <<page, slots, shellVars, methodVars, elsewhere, selectedFiles,
                   selectAll, fileSearch, confirm, inputMessage, sending,
                   loading, chatReq, unhandled>>

\* handleUploadError()
rag_handleUploadError(i) ==
    /\ page = "rag"
    /\ i \in 1..Len(net)
    /\ net[i].kind = "upload"
    /\ net' = RemoveAt(net, i)
    /\ notice' = Notice("error", "upload failed")
    /\ last' = Label("handleUploadError", "reject")
    /\ UNCHANGED <<page, slots, shellVars, methodVars, elsewhere, server,
                   uploadedFiles, selectedFiles, selectAll, fileSearch,
                   confirm, chatVars, unhandled>>

\* handleIndexClick() up to its await
rag_handleIndexClick ==
    /\ page = "rag"
    /\ confirm = NoConfirm
    /\ IF Len(selectedFiles) = 0
       THEN /\ notice' = Notice("warning", "select files first")
            /\ last' = Label("handleIndexClick", "empty")
            /\ UNCHANGED net
       ELSE /\ Len(net) < slots
            /\ notice' = Notice("info", "indexing")
            /\ net' = Append(net, Request("index", selectedFiles))
            /\ last' = Label("handleIndexClick", "sent")
    /\ UNCHANGED <<page, slots, shellVars, methodVars, elsewhere, server,
                   uploadedFiles, selectedFiles, selectAll, fileSearch,
                   confirm, chatVars, unhandled>>

\* handleIndexClick() after its await: if (response.ok) ... catch ...
rag_handleIndexClickDone(i, out, failed) ==
    /\ page = "rag"
    /\ i \in 1..Len(net)
    /\ net[i].kind = "index"
    /\ IF out = "ok"
       THEN /\ failed \subseteq Range(net[i].filenames)
            /\ \A n \in Range(net[i].filenames) :
                  server[n] = "none" => n \in failed
            /\ server' = ServerIndex(net[i].filenames, failed)
            /\ notice' = Notice("success", "index created")
            /\ net' = AfterIndex(loadUploadedFiles(RemoveAt(net, i), {}),
                                 net[i].filenames, failed)
       ELSE /\ failed = {}
            /\ notice' = IF out = "reject" THEN Notice("error", "index failed")
                         ELSE notice
            /\ net' = RemoveAt(net, i)
            /\ UNCHANGED server
    /\ last' = Label("handleIndexClick", out)
    /\ UNCHANGED <<page, slots, shellVars, methodVars, elsewhere, uploadedFiles,
                   selectedFiles, selectAll, fileSearch, confirm, chatVars,
                   unhandled>>

\* handleDeleteIndexClick() up to its await
rag_handleDeleteIndexClick ==
    /\ page = "rag"
    /\ confirm = NoConfirm
    /\ IF Len(selectedFiles) = 0
       THEN /\ notice' = Notice("warning", "select files first")
            /\ last' = Label("handleDeleteIndexClick", "empty")
            /\ UNCHANGED net
       ELSE /\ Len(net) < slots
            /\ net' = Append(net, Request("deleteIndex", selectedFiles))
            /\ last' = Label("handleDeleteIndexClick", "sent")
            /\ UNCHANGED notice
    /\ UNCHANGED <<page, slots, shellVars, methodVars, elsewhere, server,
                   uploadedFiles, selectedFiles, selectAll, fileSearch,
                   confirm, chatVars, unhandled>>

\* handleDeleteIndexClick() after its await
rag_handleDeleteIndexClickDone(i, out) ==
    /\ page = "rag"
    /\ i \in 1..Len(net)
    /\ net[i].kind = "deleteIndex"
    /\ IF out = "ok"
       THEN /\ server' = ServerDeleteIndex(net[i].filenames)
            /\ notice' = Notice("success", "index deleted")
            /\ net' = loadUploadedFiles(RemoveAt(net, i), {})
       ELSE /\ notice' = IF out = "reject"
                         THEN Notice("error", "delete index failed")
                         ELSE notice
            /\ net' = RemoveAt(net, i)
            /\ UNCHANGED server
    /\ last' = Label("handleDeleteIndexClick", out)
    /\ UNCHANGED <<page, slots, shellVars, methodVars, elsewhere, uploadedFiles,
                   selectedFiles, selectAll, fileSearch, confirm, chatVars,
                   unhandled>>

\* handleDeleteClick() up to this.$confirm(...): the prompt gives the count only
rag_handleDeleteClick ==
    /\ page = "rag"
    /\ confirm = NoConfirm
    /\ IF Len(selectedFiles) = 0
       THEN /\ notice' = Notice("warning", "select files first")
            /\ last' = Label("handleDeleteClick", "empty")
            /\ UNCHANGED confirm
       ELSE /\ confirm' = [kind |-> "delete", count |-> Len(selectedFiles),
                           indexed |-> <<>>]
            /\ last' = Label("handleDeleteClick", "prompt")
            /\ UNCHANGED notice
    /\ UNCHANGED <<page, slots, shellVars, methodVars, elsewhere, server,
                   uploadedFiles, selectedFiles, selectAll, fileSearch, net,
                   chatVars, unhandled>>

\* handleDeleteClick(): the prompt is confirmed, fetch('/uploads/delete')
rag_handleDeleteClickConfirmed ==
    /\ page = "rag"
    /\ confirm.kind = "delete"
    /\ Len(net) < slots
    /\ confirm' = NoConfirm
    /\ net' = Append(net, Request("delete", selectedFiles))
    /\ last' = Label("handleDeleteClick", "sent")
    /\ UNCHANGED <<page, slots, shellVars, methodVars, elsewhere, server,
                   uploadedFiles, selectedFiles, selectAll, fileSearch,
                   chatVars, notice, unhandled>>

\* handleDeleteClick(): the prompt is dismissed; the promise of $confirm
\* rejects and the chain has no catch
rag_handleDeleteClickCancelled ==
    /\ page = "rag"
    /\ confirm.kind = "delete"
    /\ confirm' = NoConfirm
    /\ unhandled' = TRUE
    /\ last' = Label("handleDeleteClick", "cancelled")
    /\ UNCHANGED <<page, slots, shellVars, methodVars, elsewhere, server,
                   uploadedFiles, selectedFiles, selectAll, fileSearch, net,
                   chatVars, notice>>

\* handleDeleteClick(): after the await of fetch('/uploads/delete')
rag_handleDeleteClickDone(i, out) ==
    /\ page = "rag"
    /\ i \in 1..Len(net)
    /\ net[i].kind = "delete"
    /\ IF out = "ok"
       THEN /\ server' = ServerDelete(net[i].filenames)
            /\ notice' = Notice("success", "deleted")
            /\ selectedFiles' = <<>>
            /\ net' = loadUploadedFiles(RemoveAt(net, i),
                                        Range(ServerDeletedFiles(net[i].filenames)))
       ELSE /\ notice' = IF out = "reject" THEN Notice("error", "delete failed")
                         ELSE notice
            /\ net' = RemoveAt(net, i)
            /\ UNCHANGED <<server, selectedFiles>>
    /\ last' = Label("handleDeleteClick", out)
    /\ UNCHANGED <<page, slots, shellVars, methodVars, elsewhere, uploadedFiles,
                   selectAll, fileSearch, confirm, chatVars, unhandled>>

----------------------------------------------------------------------------
(* static/pages/rag/app.js: the chat panel *)

\* sendMessage() as it would be with fetch('/chat') called before
\* this.messages.push(...): the request leaves while the list still ends with
\* the previous message
rag_sendMessage_late(typed) ==
    /\ page = "rag"
    /\ confirm = NoConfirm
    /\ LET message == trim(typed)
       IN  IF message = <<>> \/ loading
           THEN /\ inputMessage' = typed
                /\ last' = Label("sendMessage", "dropped")
                /\ UNCHANGED <<messages, loading, chatReq>>
           ELSE /\ Len(messages) <= MaxMessages
                /\ chatReq' = [active |-> TRUE, message |-> message,
                               rag_method |-> selectedMethod, at |-> Len(messages)]
                /\ messages' = Append(messages,
                                      [type |-> "user",
                                       content |-> Content("user", message,
                                                           fullName(selectedMethod), <<>>)])
                /\ inputMessage' = <<>>
                /\ loading' = TRUE
                /\ last' = Label("sendMessage", "sent")
    /\ UNCHANGED <<page, slots, shellVars, methodVars, elsewhere, fileVars, sending,
                   notice, unhandled>>

\* sendMessage() with `typed` in the input box, up to its await; the user
\* message names the RAG method
rag_sendMessage(typed) ==
    /\ page = "rag"
    /\ confirm = NoConfirm
    /\ LET message == trim(typed)
       IN  IF message = <<>> \/ loading
           THEN /\ inputMessage' = typed
                /\ last' = Label("sendMessage", "dropped")
                /\ UNCHANGED <<messages, loading, chatReq>>
           ELSE /\ Len(messages) <= MaxMessages
                /\ LET shown == Append(messages,
                                   [type |-> "user",
                                    content |-> Content("user", message,
                                                        fullName(selectedMethod), <<>>)])
                   IN  /\ messages' = shown
                       /\ chatReq' = [active |-> TRUE, message |-> message,
                                      rag_method |-> selectedMethod, at |-> Len(shown)]
                /\ inputMessage' = <<>>
                /\ loading' = TRUE
                /\ last' = Label("sendMessage", "sent")
    /\ UNCHANGED <<page, slots, shellVars, methodVars, elsewhere, fileVars, sending,
                   notice, unhandled>>

\* lines 401-405: the answer and, when there are sources, the reference list
rag_content(result) ==
    IF Len(result.sources) > 0
    THEN Content("reply", result.message, "references:", result.sources)
    ELSE Content("reply", result.message, "none", <<>>)

\* sendMessage() after its await: if (response.ok) ... catch ... finally
rag_sendMessageDone(out, result) ==
    /\ page = "rag"
    /\ chatReq.active
    /\ messages' =
          CASE out = "ok" ->
                 Append(messages, [type |-> "bot", content |-> rag_content(result)])
            [] out = "notok" -> messages
            [] out = "reject" ->
                 Append(messages,
                        [type |-> "bot",
                         content |-> Content("apology", <<>>, "error.message", <<>>)])
    /\ loading' = FALSE
    /\ chatReq' = NoChatReq
    /\ last' = [Label("sendMessage", out) EXCEPT
                  !.result = IF out = "ok" THEN result ELSE NoResult]
    /\ UNCHANGED <<page, slots, shellVars, methodVars, elsewhere, fileVars,
                   inputMessage, sending, notice, unhandled>>

----------------------------------------------------------------------------
(* static/pages/settings/app.js: the API connection test *)

\* testApiConnection() up to its await
settings_testApiConnection ==
    /\ page = "settings"
    /\ Len(net) < slots
    /\ testingApi' = TRUE
    /\ apiStatus' = "disconnected"
    /\ net' = Append(net, Request("chat", <<>>))
    /\ last' = Label("testApiConnection", "sent")
    /\ UNCHANGED <<page, slots, shellVars, methodVars, storeVars, server,
                   uploadedFiles, selectedFiles, selectAll, fileSearch,
                   confirm, chatVars, notice, unhandled>>

\* testApiConnection() after its await: try / catch / finally
settings_testApiConnectionDone(i, out) ==
    /\ page = "settings"
    /\ i \in 1..Len(net)
    /\ net[i].kind = "chat"
    /\ net' = RemoveAt(net, i)
    /\ IF out = "ok"
       THEN /\ apiStatus' = "connected"
            /\ notice' = Notice("success", "connected")
       ELSE /\ notice' = Notice("error", "connection failed")
            /\ UNCHANGED apiStatus
    /\ testingApi' = FALSE
    /\ last' = Label("testApiConnection", out)
    /\ UNCHANGED <<page, slots, shellVars, methodVars, storeVars, server,
                   uploadedFiles, selectedFiles, selectAll, fileSearch,
                   confirm, chatVars, unhandled>>

----------------------------------------------------------------------------
(* The chat page: sessions kept in localStorage *)

\* the string localStorage.setItem(key, null) stores
NullString == "null"

TitleLen == 15
Placeholder == <<"n", "e", "w">>          \* the title of a new session
Ellipsis == <<".", ".", ".">>
ApologyText == <<"e", "r", "r">>          \* the text of the catch block

\* 'chat_' + Date.now()
ChatId(t) ==
    CASE t = 0 -> "chat_0" [] t = 1 -> "chat_1" [] t = 2 -> "chat_2"
      [] OTHER -> "chat_3"
ChatIds == {ChatId(t) : t \in 0..MaxClock}

\* String.prototype.slice(0, n)
slice(s, n) == SubSeq(s, 1, IF Len(s) < n THEN Len(s) ELSE n)

\* Array.prototype.reverse
Reverse(seq) == [i \in 1..Len(seq) |-> seq[Len(seq) + 1 - i]]

\* histories[id]: the position of the entry, 0 when there is none
Entry(histories, id) ==
    IF \E k \in 1..Len(histories) : histories[k].id = id
    THEN CHOOSE k \in 1..Len(histories) : histories[k].id = id
    ELSE 0

\* histories[id] = chat: a new key goes last, an existing key keeps its place
Put(histories, chat) ==
    IF Entry(histories, chat.id) = 0 THEN Append(histories, chat)
    ELSE [histories EXCEPT ![Entry(histories, chat.id)] = chat]

\* delete histories[id]
Delete(histories, id) == SelectSeq(histories, LAMBDA c : c.id # id)

\* loadChats(): Object.values(histories).map(...).reverse()
loadChats(histories) ==
    Reverse([i \in 1..Len(histories) |->
                [id |-> histories[i].id,
                 title |-> IF histories[i].title = <<>> THEN <<"#">>
                           ELSE histories[i].title,
                 time |-> histories[i].time]])

\* the chat object newChat() builds
NewChat(t) ==
    [id |-> ChatId(t), title |-> Placeholder, time |-> t, messages |-> <<>>]

\* newChat(), the button: the session is stored, listed and selected
chat_newChat ==
    /\ page = "chat"
    /\ confirm = NoConfirm
    /\ chatHistories' = Put(chatHistories, NewChat(now))
    /\ chats' = loadChats(chatHistories')
    /\ currentChatId' = ChatId(now)
    /\ currentMessages' = <<>>
    /\ chatCurrentId' = ChatId(now)
    /\ last' = Label("newChat", "done")
    /\ UNCHANGED <<page, slots, shellVars, methodVars, fileVars, chatVars,
                   settingsVars, now, notice, unhandled>>

\* selectChat(id), from the list of chats
chat_selectChat(id) ==
    /\ page = "chat"
    /\ confirm = NoConfirm
    /\ \E k \in 1..Len(chats) : chats[k].id = id
    /\ currentChatId' = id
    /\ currentMessages' =
          IF Entry(chatHistories, id) = 0 THEN <<>>
          ELSE chatHistories[Entry(chatHistories, id)].messages
    \* a reply still in flight will be appended to the session selected here
    /\ loading => Len(currentMessages') <= MaxMessages
    /\ chatCurrentId' = id
    /\ last' = Label("selectChat", "done")
    /\ UNCHANGED <<page, slots, shellVars, methodVars, fileVars, chatVars,
                   settingsVars, chatHistories, chats, now, notice, unhandled>>

\* sendMessage() with `typed` in the input box, up to its await; `session`
\* records the session the turn was typed in (a history field)
chat_sendMessage(typed) ==
    /\ page = "chat"
    /\ confirm = NoConfirm
    /\ LET message == trim(typed)
       IN  IF message = <<>> \/ loading
           THEN /\ inputMessage' = typed
                /\ last' = Label("sendMessage", "dropped")
                /\ UNCHANGED <<loading, chatReq, storeVars>>
           ELSE /\ Len(currentMessages) < MaxMessages
                /\ IF currentChatId = JsNull
                   THEN \* this.newChat()
                        /\ chatHistories' = Put(chatHistories, NewChat(now))
                        /\ chats' = loadChats(chatHistories')
                        /\ currentChatId' = ChatId(now)
                        /\ chatCurrentId' = ChatId(now)
                        /\ currentMessages' =
                              <<[role |-> "user", content |-> message]>>
                   ELSE /\ currentMessages' =
                              Append(currentMessages,
                                     [role |-> "user", content |-> message])
                        /\ UNCHANGED <<chatHistories, chats, currentChatId,
                                       chatCurrentId>>
                /\ chatReq' = [active |-> TRUE, message |-> message,
                               rag_method |-> "option1",
                               at |-> Len(currentMessages'),
                               session |-> currentChatId']
                /\ inputMessage' = <<>>
                /\ loading' = TRUE
                /\ last' = Label("sendMessage", "sent")
                /\ UNCHANGED now
    /\ UNCHANGED <<page, slots, shellVars, methodVars, fileVars, messages, sending,
                   settingsVars, notice, unhandled>>

\* updateChatHistory() without its test `if (histories[this.currentChatId])`:
\* the messages are stored under the pointer whether the store has it or not
updateChatHistory_unguarded(shown) ==
    LET k == Entry(chatHistories, currentChatId)
    IN  IF k = 0
        THEN Append(chatHistories,
                    [id |-> currentChatId, title |-> Placeholder, time |-> now,
                     messages |-> shown])
        ELSE [chatHistories EXCEPT ![k].messages = shown]

\* updateChatHistory(), given what this.currentMessages holds
updateChatHistory(shown) ==
    LET k == Entry(chatHistories, currentChatId)
        title == IF slice(shown[2].content, TitleLen) = <<>> THEN Placeholder
                 ELSE slice(shown[2].content, TitleLen)
    IN  IF k = 0 THEN chatHistories
        ELSE [chatHistories EXCEPT
                 ![k] = [@ EXCEPT
                            !.messages = shown,
                            !.title = IF Len(shown) > 1
                                      THEN title \o (IF Len(title) >= TitleLen
                                                     THEN Ellipsis ELSE <<>>)
                                      ELSE @]]

\* sendMessage() after its await: if (response.ok) ... catch ... finally
chat_sendMessageDone(out, result) ==
    /\ page = "chat"
    /\ chatReq.active
    /\ CASE out = "ok" ->
              /\ currentMessages' =
                    Append(currentMessages,
                           [role |-> "bot", content |-> result.message])
              /\ chatHistories' = updateChatHistory(currentMessages')
              /\ chats' = IF Entry(chatHistories, currentChatId) = 0 THEN chats
                          ELSE loadChats(chatHistories')
         [] out = "notok" ->
              UNCHANGED <<currentMessages, chatHistories, chats>>
         [] out = "reject" ->
              /\ currentMessages' =
                    Append(currentMessages,
                           [role |-> "bot", content |-> ApologyText])
              /\ UNCHANGED <<chatHistories, chats>>
    /\ loading' = FALSE
    /\ chatReq' = NoChatReq
    /\ last' = Label("sendMessage", out)
    /\ UNCHANGED <<page, slots, shellVars, methodVars, fileVars, messages,
                   inputMessage, sending, settingsVars, currentChatId,
                   chatCurrentId, now, notice, unhandled>>

\* handleChatCommand('delete', id) up to this.$confirm(...)
chat_handleDelete(id) ==
    /\ page = "chat"
    /\ confirm = NoConfirm
    /\ \E k \in 1..Len(chats) : chats[k].id = id
    /\ confirm' = [kind |-> id, count |-> 1, indexed |-> <<>>]
    /\ last' = Label("handleChatCommand", "prompt")
    /\ UNCHANGED <<page, slots, shellVars, methodVars, server, uploadedFiles,
                   selectedFiles, selectAll, fileSearch, net, chatVars,
                   settingsVars, storeVars, notice, unhandled>>

\* handleChatCommand('delete', id): the prompt is confirmed
chat_handleDeleteConfirmed ==
    /\ page = "chat"
    /\ confirm.kind \in ChatIds
    /\ confirm' = NoConfirm
    /\ chatHistories' = Delete(chatHistories, confirm.kind)
    /\ IF currentChatId = confirm.kind
       THEN /\ currentChatId' = JsNull
            /\ currentMessages' = <<>>
            /\ chatCurrentId' = NullString
       ELSE UNCHANGED <<currentChatId, currentMessages, chatCurrentId>>
    /\ chats' = loadChats(chatHistories')
    /\ last' = Label("handleChatCommand", "deleted")
    /\ UNCHANGED <<page, slots, shellVars, methodVars, server, uploadedFiles,
                   selectedFiles, selectAll, fileSearch, net, chatVars,
                   settingsVars, now, notice, unhandled>>

\* handleChatCommand('delete', id): the prompt is dismissed; the chain has
\* no catch
chat_handleDeleteCancelled ==
    /\ page = "chat"
    /\ confirm.kind \in ChatIds
    /\ confirm' = NoConfirm
    /\ unhandled' = TRUE
    /\ last' = Label("handleChatCommand", "cancelled")
    /\ UNCHANGED <<page, slots, shellVars, methodVars, server, uploadedFiles,
                   selectedFiles, selectAll, fileSearch, net, chatVars,
                   settingsVars, storeVars, notice>>

\* what the user types into the $prompt of rename
Titles == {<<>>, <<"t">>}

\* handleChatCommand('rename', id) up to this.$prompt(...)
chat_handleRename(id) ==
    /\ page = "chat"
    /\ confirm = NoConfirm
    /\ \E k \in 1..Len(chats) : chats[k].id = id
    /\ confirm' = [kind |-> "rename", count |-> 1, indexed |-> <<>>, id |-> id]
    /\ last' = Label("handleChatCommand", "prompt")
    /\ UNCHANGED <<page, slots, shellVars, methodVars, server, uploadedFiles,
                   selectedFiles, selectAll, fileSearch, net, chatVars,
                   settingsVars, storeVars, notice, unhandled>>

\* handleChatCommand('rename', id): the prompt is confirmed with `value`
chat_handleRenameConfirmed(value) ==
    /\ page = "chat"
    /\ confirm.kind = "rename"
    /\ confirm' = NoConfirm
    /\ LET k == Entry(chatHistories, confirm.id)
       IN  IF k # 0
           THEN /\ chatHistories' =
                      [chatHistories EXCEPT
                          ![k].title = IF value = <<>> THEN Placeholder ELSE value]
                /\ chats' = loadChats(chatHistories')
           ELSE UNCHANGED <<chatHistories, chats>>
    /\ last' = [Label("handleChatCommand", "renamed") EXCEPT
                  !.result.message = value]
    /\ UNCHANGED <<page, slots, shellVars, methodVars, server, uploadedFiles,
                   selectedFiles, selectAll, fileSearch, net, chatVars,
                   settingsVars, chatCurrentId, currentChatId, currentMessages,
                   now, notice, unhandled>>

\* handleChatCommand('rename', id): the prompt is cancelled; the promise of
\* $prompt rejects and the chain has no catch
chat_handleRenameCancelled ==
    /\ page = "chat"
    /\ confirm.kind = "rename"
    /\ confirm' = NoConfirm
    /\ unhandled' = TRUE
    /\ last' = Label("handleChatCommand", "rename cancelled")
    /\ UNCHANGED <<page, slots, shellVars, methodVars, server, uploadedFiles,
                   selectedFiles, selectAll, fileSearch, net, chatVars,
                   settingsVars, storeVars, notice>>

\* Date.now() advances
Tick ==
    /\ page = "chat"
    /\ now < MaxClock
    /\ now' = now + 1
    /\ last' = Label("Date.now", "done")
    /\ UNCHANGED <<page, slots, shellVars, methodVars, fileVars, chatVars,
                   settingsVars, chatHistories, chatCurrentId, chats,
                   currentChatId, currentMessages, notice, unhandled>>

----------------------------------------------------------------------------
(* static/pages/history/app.js: the history page, on the same localStorage *)

\* the chats of the given time, for t, t-1, ..., 0 in turn
RECURSIVE NewestFirst(_, _)
NewestFirst(list, t) ==
    IF t < 0 THEN <<>>
    ELSE SelectSeq(list, LAMBDA c : c.time = t) \o NewestFirst(list, t - 1)

\* loadHistory(): Object.values(histories).map(...).sort(newest first)
loadHistory(histories) ==
    NewestFirst([i \in 1..Len(histories) |->
                    [id |-> histories[i].id,
                     title |-> IF histories[i].title = <<>> THEN <<"#">>
                               ELSE histories[i].title,
                     time |-> histories[i].time,
                     messages |-> histories[i].messages]],
                MaxClock)

\* continueChat(): asks the embedding window for the chat page
history_continueChat ==
    /\ page = "history"
    /\ confirm = NoConfirm
    /\ Len(mailbox) < MaxInflight
    /\ mailbox' = Append(mailbox, [type |-> "switchPage", kind |-> JsUndefined,
                                   page |-> "chat"])
    /\ last' = Label("continueChat", "chat")
    /\ UNCHANGED <<page, slots, activePage, methodVars, fileVars, chatVars, elsewhere,
                   notice, unhandled>>

\* deleteChat(id) up to this.$confirm(...)
history_deleteChat(id) ==
    /\ page = "history"
    /\ confirm = NoConfirm
    /\ \E k \in 1..Len(chats) : chats[k].id = id
    /\ confirm' = [kind |-> "deleteChat", count |-> 1, indexed |-> <<>>, id |-> id]
    /\ last' = Label("deleteChat", "prompt")
    /\ UNCHANGED <<page, slots, shellVars, methodVars, server, uploadedFiles,
                   selectedFiles, selectAll, fileSearch, net, chatVars,
                   settingsVars, storeVars, notice, unhandled>>

\* deleteChat(id): the prompt is confirmed
history_deleteChatConfirmed ==
    /\ page = "history"
    /\ confirm.kind = "deleteChat"
    /\ confirm' = NoConfirm
    /\ chatHistories' = Delete(chatHistories, confirm.id)
    /\ chats' = loadHistory(chatHistories')
    /\ notice' = Notice("success", "deleted")
    /\ last' = Label("deleteChat", "deleted")
    /\ UNCHANGED <<page, slots, shellVars, methodVars, server, uploadedFiles,
                   selectedFiles, selectAll, fileSearch, net, chatVars,
                   settingsVars, chatCurrentId, currentChatId, currentMessages,
                   now, unhandled>>

\* deleteChat(id): the prompt is dismissed; the chain has no catch
history_deleteChatCancelled ==
    /\ page = "history"
    /\ confirm.kind = "deleteChat"
    /\ confirm' = NoConfirm
    /\ unhandled' = TRUE
    /\ last' = Label("deleteChat", "cancelled")
    /\ UNCHANGED <<page, slots, shellVars, methodVars, server, uploadedFiles,
                   selectedFiles, selectAll, fileSearch, net, chatVars,
                   settingsVars, storeVars, notice>>

\* clearAllHistory() up to this.$confirm(...)
history_clearAllHistory ==
    /\ page = "history"
    /\ confirm = NoConfirm
    /\ confirm' = [kind |-> "clearAllHistory", count |-> Len(chats),
                   indexed |-> <<>>]
    /\ last' = Label("clearAllHistory", "prompt")
    /\ UNCHANGED <<page, slots, shellVars, methodVars, server, uploadedFiles,
                   selectedFiles, selectAll, fileSearch, net, chatVars,
                   settingsVars, storeVars, notice, unhandled>>

\* clearAllHistory(): the prompt is confirmed
history_clearAllHistoryConfirmed ==
    /\ page = "history"
    /\ confirm.kind = "clearAllHistory"
    /\ confirm' = NoConfirm
    /\ chatHistories' = <<>>
    /\ chatCurrentId' = NullString
    /\ chats' = <<>>
    /\ notice' = Notice("success", "cleared")
    /\ last' = Label("clearAllHistory", "cleared")
    /\ UNCHANGED <<page, slots, shellVars, methodVars, server, uploadedFiles,
                   selectedFiles, selectAll, fileSearch, net, chatVars,
                   settingsVars, currentChatId, currentMessages, now,
                   unhandled>>

\* clearAllHistory(): the prompt is dismissed; the chain has no catch
history_clearAllHistoryCancelled ==
    /\ page = "history"
    /\ confirm.kind = "clearAllHistory"
    /\ confirm' = NoConfirm
    /\ unhandled' = TRUE
    /\ last' = Label("clearAllHistory", "cancelled")
    /\ UNCHANGED <<page, slots, shellVars, methodVars, server, uploadedFiles,
                   selectedFiles, selectAll, fileSearch, net, chatVars,
                   settingsVars, storeVars, notice>>

(* The home page and the shell that embeds the pages *)

\* the pages the shortcuts of the home page ask for
Pages == {"rag", "chat"}

\* goToPage(page) of the home page
home_goToPage(target) ==
    /\ page = "home"
    /\ Len(mailbox) < MaxInflight
    /\ mailbox' = Append(mailbox, [type |-> "switchPage", kind |-> JsUndefined,
                                   page |-> target])
    /\ last' = Label("goToPage", target)
    /\ UNCHANGED <<page, slots, activePage, methodVars, fileVars, chatVars, elsewhere,
                   notice, unhandled>>

\* the navigation request the shell recognizes: { kind: "navigate", page }
Recognized(msg) == msg.kind = "navigate" /\ msg.page # JsUndefined

\* onChildMessage(msg) of the shell: a recognized message switches the page,
\* any other is dropped
onChildMessage ==
    /\ mailbox # <<>>
    /\ activePage' = IF Recognized(Head(mailbox)) THEN Head(mailbox).page
                      ELSE activePage
    /\ mailbox' = Tail(mailbox)
    /\ last' = Label("onChildMessage",
                     IF Recognized(Head(mailbox)) THEN "switched" ELSE "dropped")
    /\ UNCHANGED <<page, slots, methodVars, fileVars, chatVars, elsewhere, notice,
                   unhandled>>

----------------------------------------------------------------------------
----------------------------------------------------------------------------
(* Specifications *)

\* what no page has touched yet
InitElsewhere ==
    /\ testingApi = FALSE
    /\ apiStatus = "disconnected"
    /\ chatHistories = <<>>
    /\ chatCurrentId = NullString
    /\ chats = <<>>
    /\ currentChatId = JsNull
    /\ currentMessages = <<>>
    /\ now = 0

InitPanel ==
    /\ server \in [Names -> {"none", "file", "indexed"}]
    /\ uploadedFiles = <<>>
    /\ selectedFiles = <<>>
    /\ selectAll = FALSE
    /\ fileSearch = <<>>
    /\ selectedMethod = "option1"
    /\ expandedMethod = "option1"
    /\ activePage = "home"
    /\ mailbox = <<>>
    /\ messages = <<Greeting>>
    /\ inputMessage = <<>>
    /\ sending = FALSE
    /\ loading = FALSE
    /\ net = loadUploadedFiles(<<>>, {})
    /\ slots \in {MaxInflight, MaxInflight + 1}
    /\ chatReq = NoChatReq
    /\ confirm = NoConfirm
    /\ notice = NoNotice
    /\ unhandled = FALSE
    /\ last = Label("mounted", "done")

\* data() and mounted() of static/app.js
InitApp == page = "app" /\ InitPanel /\ InitElsewhere /\ slots = MaxInflight

\* data() and mounted() of static/pages/rag/app.js
InitRag == page = "rag" /\ InitPanel /\ InitElsewhere /\ slots = MaxInflight

NoPanel ==
    /\ server = [n \in Names |-> "none"]
    /\ uploadedFiles = <<>>
    /\ selectedFiles = <<>>
    /\ selectAll = FALSE
    /\ fileSearch = <<>>
    /\ selectedMethod = JsNull
    /\ expandedMethod = JsNull
    /\ activePage = "home"
    /\ mailbox = <<>>
    /\ messages = <<>>
    /\ inputMessage = <<>>
    /\ sending = FALSE
    /\ loading = FALSE
    /\ net = <<>>
    /\ slots = MaxInflight
    /\ chatReq = NoChatReq
    /\ confirm = NoConfirm
    /\ notice = NoNotice
    /\ unhandled = FALSE
    /\ last = Label("mounted", "done")

\* data() and mounted() of static/pages/settings/app.js
InitSettings ==
    /\ page = "settings"
    /\ NoPanel
    /\ InitElsewhere

\* data() and mounted() of the chat page on a first visit: loadChats() finds
\* no sessions, initLocalStorage() stores {} and null and reads the latter back.
InitChat ==
    /\ page = "chat"
    /\ NoPanel
    /\ testingApi = FALSE
    /\ apiStatus = "disconnected"
    /\ now = 0
    /\ currentMessages = <<>>
    /\ chatHistories = <<>>
    /\ chatCurrentId = NullString
    /\ chats = loadChats(chatHistories)
    /\ currentChatId = chatCurrentId

\* FileRegistry: the list, the filter and the selection
NextRegistry ==
    \/ \E query \in Queries : setSearch(query)
    \/ \E name \in Names : toggle(name)
    \/ \E val \in BOOLEAN : setSelectAll(val)
    \/ \E i \in 1..MaxInflight, out \in Outcomes : loadUploadedFilesDone(i, out)
    \/ \E name \in Names : upload(name)
    \/ \E i \in 1..MaxInflight : handleUploadSuccess(i)
    \/ \E i \in 1..MaxInflight : handleUploadError(i)
    \/ \E name \in Names : rag_toggleFileSelection(name)
    \/ \E val \in BOOLEAN : rag_setSelectAll(val)
    \/ \E i \in 1..MaxInflight, out \in Outcomes : rag_loadUploadedFilesDone(i, out)
    \/ \E name \in Names : rag_upload(name)
    \/ \E i \in 1..MaxInflight : rag_handleUploadSuccess(i)
    \/ \E i \in 1..MaxInflight : rag_handleUploadError(i)

SpecRegistry == (InitApp \/ InitRag) /\ [][NextRegistry]_vars

\* IndexCoordinator: index creation, index deletion, file deletion
NextCoordinator ==
    \/ \E name \in Names : toggle(name)
    \/ \E val \in BOOLEAN : setSelectAll(val)
    \/ \E i \in 1..MaxInflight, out \in Outcomes : loadUploadedFilesDone(i, out)
    \/ handleIndexClick
    \/ \E i \in 1..MaxInflight, out \in Outcomes, failed \in SUBSET Names :
          handleIndexClickDone(i, out, failed)
    \/ handleDeleteIndexClick
    \/ \E i \in 1..MaxInflight, out \in Outcomes : handleDeleteIndexClickDone(i, out)
    \/ handleDeleteClick
    \/ handleDeleteClickConfirmed
    \/ handleDeleteClickCancelled
    \/ \E i \in 1..MaxInflight, out \in Outcomes : handleDeleteClickDone(i, out)
    \/ \E name \in Names : rag_toggleFileSelection(name)
    \/ \E val \in BOOLEAN : rag_setSelectAll(val)
    \/ \E i \in 1..MaxInflight, out \in Outcomes : rag_loadUploadedFilesDone(i, out)
    \/ rag_handleIndexClick
    \/ \E i \in 1..MaxInflight, out \in Outcomes, failed \in SUBSET Names :
          rag_handleIndexClickDone(i, out, failed)
    \/ rag_handleDeleteIndexClick
    \/ \E i \in 1..MaxInflight, out \in Outcomes :
          rag_handleDeleteIndexClickDone(i, out)
    \/ rag_handleDeleteClick
    \/ rag_handleDeleteClickConfirmed
    \/ rag_handleDeleteClickCancelled
    \/ \E i \in 1..MaxInflight, out \in Outcomes : rag_handleDeleteClickDone(i, out)

SpecCoordinator == (InitApp \/ InitRag) /\ [][NextCoordinator]_vars

\* ChatPipelineClient: every handler that sends a chat turn or appends to the
\* message list
NextPipeline ==
    \/ \E typed \in Inputs : sendMessage(typed)
    \/ \E out \in Outcomes, result \in ChatResults : sendMessageDone(out, result)
    \/ \E i \in 1..MaxInflight, out \in Outcomes : loadUploadedFilesDone(i, out)
    \/ \E name \in Names : upload(name)
    \/ \E i \in 1..MaxInflight : handleUploadSuccess(i)
    \/ \E i \in 1..MaxInflight : handleUploadError(i)
    \/ \E typed \in Inputs : rag_sendMessage(typed)
    \/ \E out \in Outcomes, result \in ChatResults : rag_sendMessageDone(out, result)
    \/ \E i \in 1..MaxInflight, out \in Outcomes : rag_loadUploadedFilesDone(i, out)
    \/ \E name \in Names : rag_upload(name)
    \/ \E i \in 1..MaxInflight : rag_handleUploadSuccess(i)
    \/ \E i \in 1..MaxInflight : rag_handleUploadError(i)
    \/ settings_testApiConnection
    \/ \E i \in 1..MaxInflight, out \in Outcomes : settings_testApiConnectionDone(i, out)
    \/ \E typed \in Inputs : chat_sendMessage(typed)
    \/ \E out \in Outcomes, result \in ChatResults : chat_sendMessageDone(out, result)
    \/ chat_newChat
    \/ \E id \in ChatIds : chat_selectChat(id)
    \/ \E id \in ChatIds : chat_handleDelete(id)
    \/ chat_handleDeleteConfirmed
    \/ chat_handleDeleteCancelled

\* the four pages that send chat turns or test the connection, each freshly
\* loaded; the file panels start against a backend that stores nothing yet
InitPipeline ==
    \/ (InitApp \/ InitRag) /\ server = [n \in Names |-> "none"]
    \/ InitSettings
    \/ InitChat

SpecPipeline == InitPipeline /\ [][NextPipeline]_vars

\* the texts of the replies the chat page receives: short, of exactly
\* TitleLen characters, and longer
Short == <<"r">>
Exact == [k \in 1..TitleLen |-> "x"]
Long == [k \in 1..(TitleLen + 1) |-> "y"]
Replies == [message : {Short}, sources : {<<>>}, source_type : {"absent"}]
LongReplies ==
    [message : {Exact, Long}, sources : {<<>>}, source_type : {"absent"}]

\* a session an earlier visit of the chat page left in localStorage: one turn
\* made at time 0
StoredChat ==
    [id |-> ChatId(0), title |-> Short, time |-> 0,
     messages |-> <<[role |-> "user", content |-> <<"q">>],
                    [role |-> "bot", content |-> Short]>>]

\* data() and mounted() of the history page, on what the chat page stored:
\* the session above, alone or with a new one, either of them current
InitHistory ==
    /\ page = "history"
    /\ NoPanel
    /\ testingApi = FALSE
    /\ apiStatus = "disconnected"
    /\ now = MaxClock
    /\ currentMessages = <<>>
    /\ currentChatId = JsNull
    /\ chatHistories \in {<<StoredChat>>, <<StoredChat, NewChat(MaxClock)>>}
    /\ chatCurrentId \in {ChatId(0), ChatId(MaxClock)}
    /\ chats = loadHistory(chatHistories)

\* ChatSessionStore: the sessions of the chat page and of the history page
NextSessions ==
    \/ \E typed \in Inputs : chat_sendMessage(typed)
    \/ \E out \in Outcomes, result \in Replies : chat_sendMessageDone(out, result)
    \/ chat_newChat
    \/ \E id \in ChatIds : chat_selectChat(id)
    \/ \E id \in ChatIds : chat_handleDelete(id)
    \/ chat_handleDeleteConfirmed
    \/ chat_handleDeleteCancelled
    \/ \E id \in ChatIds : chat_handleRename(id)
    \/ \E value \in Titles : chat_handleRenameConfirmed(value)
    \/ chat_handleRenameCancelled
    \/ Tick
    \/ \E id \in ChatIds : history_deleteChat(id)
    \/ history_deleteChatConfirmed
    \/ history_deleteChatCancelled
    \/ history_clearAllHistory
    \/ history_clearAllHistoryConfirmed
    \/ history_clearAllHistoryCancelled

SpecSessions == (InitChat \/ InitHistory) /\ [][NextSessions]_vars

\* the title of a session: turns of the chat page with replies long enough to
\* be cut
NextTitles ==
    \/ \E typed \in Inputs : chat_sendMessage(typed)
    \/ \E out \in Outcomes, result \in LongReplies :
          chat_sendMessageDone(out, result)
    \/ chat_newChat
    \/ \E id \in ChatIds : chat_selectChat(id)

SpecTitles == InitChat /\ [][NextTitles]_vars

\* sessions deleted and renamed on the chat page while a turn is in flight
NextDeletes ==
    \/ chat_sendMessage(<<"q">>)
    \/ \E out \in Outcomes, result \in Replies : chat_sendMessageDone(out, result)
    \/ chat_newChat
    \/ \E id \in ChatIds : chat_handleDelete(id)
    \/ chat_handleDeleteConfirmed
    \/ \E id \in ChatIds : chat_handleRename(id)
    \/ chat_handleRenameConfirmed(<<"t">>)
    \/ Tick

SpecDeletes == InitChat /\ [][NextDeletes]_vars

\* MethodCatalog: the method chosen on the two pages that have the catalog,
\* and the chat turns that carry it
NextMethods ==
    \/ \E option \in Methods : toggleOption(option)
    \/ \E methodId \in Methods : rag_toggleMethod(methodId)
    \/ \E methodId \in Methods : rag_selectMethod(methodId)
    \/ \E typed \in Inputs : sendMessage(typed)
    \/ \E out \in Outcomes, result \in Replies : sendMessageDone(out, result)
    \/ \E typed \in Inputs : rag_sendMessage(typed)
    \/ \E out \in Outcomes, result \in Replies : rag_sendMessageDone(out, result)

InitMethods ==
    /\ InitApp \/ InitRag
    /\ server = [n \in Names |-> "none"]

SpecMethods == InitMethods /\ [][NextMethods]_vars

\* the upload pre-check: files of every kind are offered to the two pages; the
\* backend stores the files of Names and refuses the others
NextUpload ==
    \/ \E name \in Files : upload(name)
    \/ \E i \in 1..MaxInflight :
          /\ i <= Len(net)
          /\ net[i].filenames \in {<<n>> : n \in Names}
          /\ handleUploadSuccess(i)
    \/ \E i \in 1..MaxInflight : handleUploadError(i)
    \/ \E i \in 1..MaxInflight, out \in Outcomes : loadUploadedFilesDone(i, out)
    \/ \E name \in Names : toggle(name)
    \/ \E name \in Files : rag_upload(name)
    \/ \E i \in 1..MaxInflight :
          /\ i <= Len(net)
          /\ net[i].filenames \in {<<n>> : n \in Names}
          /\ rag_handleUploadSuccess(i)
    \/ \E i \in 1..MaxInflight : rag_handleUploadError(i)
    \/ \E i \in 1..MaxInflight, out \in Outcomes : rag_loadUploadedFilesDone(i, out)
    \/ \E name \in Names : rag_toggleFileSelection(name)

SpecUpload == (InitApp \/ InitRag) /\ [][NextUpload]_vars

\* data() and mounted() of the home page; its statistics are not modelled
InitHome ==
    /\ page = "home"
    /\ NoPanel
    /\ InitElsewhere

\* NavigationShell: the pages that post navigation requests, and the shell
NextShell ==
    \/ \E target \in Pages : home_goToPage(target)
    \/ history_continueChat
    \/ onChildMessage
    \/ \E id \in ChatIds : history_deleteChat(id)
    \/ history_deleteChatConfirmed
    \/ history_deleteChatCancelled
    \/ history_clearAllHistory
    \/ history_clearAllHistoryConfirmed
    \/ history_clearAllHistoryCancelled

SpecShell == (InitHome \/ InitHistory) /\ [][NextShell]_vars

\* refreshes of the main page that overlap: one request more may be in
\* flight, and the backend builds a response at any moment between the
\* request and its delivery; the backend starts with both files stored
InitRefresh ==
    /\ page = "app"
    /\ InitPanel
    /\ InitElsewhere
    /\ slots = MaxInflight + 1
    /\ server = [n \in Names |-> "file"]

NextRefresh ==
    \/ \E name \in Names : toggle(name)
    \/ \E i \in 1..(MaxInflight + 1) : serveList(i)
    \/ \E i \in 1..(MaxInflight + 1), out \in Outcomes :
          loadUploadedFilesDone(i, out)
    \/ handleIndexClick
    \/ \E i \in 1..(MaxInflight + 1) : handleIndexClickDone(i, "ok", {})
    \/ handleDeleteClick
    \/ handleDeleteClickConfirmed
    \/ handleDeleteClickCancelled
    \/ \E i \in 1..(MaxInflight + 1) : handleDeleteClickDone(i, "ok")

SpecRefresh == InitRefresh /\ [][NextRefresh]_vars

----------------------------------------------------------------------------
(* Properties *)

\* the names of the rows the file panel shows
FilteredNames ==
    Range(NamesOf(IF page = "rag" THEN rag_filteredFiles ELSE filteredFiles))

\* this step is the continuation of a chat request: it resolves the request
ChatResolves(outs) ==
    /\ chatReq.active
    /\ ~chatReq'.active
    /\ last'.op = "sendMessage"
    /\ last'.out \in outs

\* msgs2 is msgs with one message appended
Appended(msgs, msgs2) ==
    /\ Len(msgs2) = Len(msgs) + 1
    /\ SubSeq(msgs2, 1, Len(msgs)) = msgs

\* C1: whenever the filtered view shows at least one file, the select-all box
\* is ticked if and only if the selection is exactly the set of names the
\* filtered view shows.
C1_SelectAllIffAllFiltered ==
    FilteredNames # {} =>
        (selectAll <=> (Range(selectedFiles) = FilteredNames))

\* C2: a send invoked while the request of an earlier send is unresolved
\* changes nothing that can be observed: no message is appended, no request is
\* dispatched, nothing is stored.
C2_SecondSendDropped ==
    [][(chatReq.active /\ last'.op = "sendMessage"
            /\ last'.out \in {"sent", "dropped"})
        => /\ messages' = messages
           /\ currentMessages' = currentMessages
           /\ chatHistories' = chatHistories
           /\ chatReq' = chatReq
           /\ last'.out = "dropped"]_vars

\* a non-blank send was invoked while a request was in flight, and was dropped
C2_Witness ==
    /\ chatReq.active
    /\ last = Label("sendMessage", "dropped")
    /\ trim(inputMessage) # <<>>

\* C3: while the request of a send is unresolved, the message that was last in
\* the list when the request was dispatched is the user message of that send,
\* and no reply or apology stands after it; a reply or apology is appended only
\* by the step that resolves the request, at the end of the list.
C3_InFlight ==
    (page \in {"app", "rag"} /\ chatReq.active) =>
        /\ chatReq.at \in 1..Len(messages)
        /\ messages[chatReq.at].type = "user"
        /\ messages[chatReq.at].content.text = chatReq.message
        /\ \A k \in (chatReq.at + 1)..Len(messages) :
              messages[k].content.kind \notin {"reply", "apology"}
C3_BotOnlyOnResolution ==
    (page \in {"app", "rag"} /\ messages' # messages
        /\ messages'[Len(messages')].content.kind \in {"reply", "apology"})
    => /\ ChatResolves(Outcomes)
       /\ Appended(messages, messages')
       /\ Len(messages') > chatReq.at
C3_UserBeforeDispatchBotAfter ==
    []C3_InFlight /\ [][C3_BotOnlyOnResolution]_vars

\* a turn went through: the user message, then the reply after the response
C3_Witness ==
    /\ page \in {"app", "rag"}
    /\ last.op = "sendMessage"
    /\ last.out = "ok"
    /\ Len(messages) >= 3
    /\ messages[Len(messages) - 1].type = "user"
    /\ messages[Len(messages)].content.kind = "reply"

\* C4: whenever no chat request is in flight the sending/loading flag is
\* false, and whenever no connection test is in flight the testing flag is
\* false, whatever the outcome of the requests before.
C4_FlagClearedWhenIdle ==
    /\ ~chatReq.active => (~sending /\ ~loading)
    /\ (\A i \in 1..Len(net) : net[i].kind # "chat") => ~testingApi

\* a request has just failed (status or transport) and the flag is down
C4_Witness ==
    /\ last.op = "sendMessage"
    /\ last.out \in {"notok", "reject"}
    /\ ~chatReq.active
    /\ ~sending /\ ~loading /\ ~testingApi

\* C5: the step that resolves a failed chat request (non-success status or
\* transport rejection) appends exactly one bot message, the apology.
C5_FailureAppendsApology ==
    [][ChatResolves({"notok", "reject"}) =>
          IF page = "chat"
          THEN currentMessages' =
                  Append(currentMessages, [role |-> "bot", content |-> ApologyText])
          ELSE /\ Appended(messages, messages')
               /\ messages'[Len(messages')].type = "bot"
               /\ messages'[Len(messages')].content.kind = "apology"]_vars

\* the label of the list of sources a page puts under a reply
CitationMarker == IF page = "rag" THEN "references:" ELSE "sources:"

\* the content the bot message is to have, case by case
ExpectedContent(result) ==
    IF Len(result.sources) > 0 /\ result.source_type = "local"
    THEN Content("reply", result.message, CitationMarker, result.sources)
    ELSE IF result.source_type = "general"
         THEN Content("reply", result.message, "source: general", <<>>)
         ELSE IF result.source_type = "network"
              THEN Content("reply", result.message, "source: network", <<>>)
              ELSE Content("reply", result.message, "none", <<>>)

\* C6: the step that resolves a successful chat request appends a bot message
\* whose content is the reply with the citation block (sources non-empty and
\* kind local), else the general-knowledge marker (kind general), else the
\* network marker without sources (kind network), for every combination of
\* sources and kind.
C6_ContentBySourceKind ==
    [][(page \in {"app", "rag"} /\ ChatResolves({"ok"})) =>
          messages' = Append(messages,
                             [type |-> "bot",
                              content |-> ExpectedContent(last'.result)])]_vars

\* this step resolves the request net[i] of the given kind with outcome in outs
Resolves(i, kind, op, outs) ==
    /\ i \in 1..Len(net)
    /\ net[i].kind = kind
    /\ last'.op = op
    /\ last'.out \in outs
    /\ \/ net' = RemoveAt(net, i)
       \/ /\ Len(net') = Len(net)
          /\ SubSeq(net', 1, Len(net) - 1) = RemoveAt(net, i)
          /\ net'[Len(net')].kind = "list"

\* C7: when the catalog refresh that follows a successful delete has ended,
\* with success or with failure, none of the files that delete removed is in
\* the registry list or in the selection.
C7_DeletedFilesGone ==
    [][\A i \in 1..Len(net) :
          (Resolves(i, "list", "loadUploadedFiles", Outcomes)
              /\ net' = RemoveAt(net, i))
          => \A n \in net[i].deleted :
                /\ ~InSeq(n, NamesOf(uploadedFiles'))
                /\ ~InSeq(n, selectedFiles')]_vars

\* the selected files the registry lists as indexed, in the order of the list
SelectedWithIndex ==
    LET withIndex(f) == InSeq(f.name, selectedFiles) /\ f.indexed
    IN  NamesOf(SelectSeq(uploadedFiles, withIndex))

\* C8: a delete request is dispatched only by the step that confirms the
\* prompt; the prompt names the selected files that are indexed; dismissing
\* the prompt sends nothing, leaves registry and selection as they were,
\* shows no notice and leaves no rejection unhandled.
C8_DeleteOnlyAfterConfirm ==
    [][/\ (Appended(net, net') /\ net'[Len(net')].kind = "delete")
          => (confirm.kind = "delete" /\ last' = Label("handleDeleteClick", "sent"))
       /\ last' = Label("handleDeleteClick", "prompt")
          => confirm'.indexed = SelectedWithIndex
       /\ last' = Label("handleDeleteClick", "cancelled")
          => /\ net' = net
             /\ uploadedFiles' = uploadedFiles
             /\ selectedFiles' = selectedFiles
             /\ notice' = notice
             /\ unhandled' = unhandled]_vars

\* C9: the notice shown when a delete succeeds lists the indexes the response
\* reports as deleted in cascade and the files it reports as deleted.
C9_SummaryMergesLists ==
    [][\A i \in 1..Len(net) :
          Resolves(i, "delete", "handleDeleteClick", {"ok"})
          => /\ notice'.type = "success"
             /\ notice'.indexes = ServerDeletedIndexes(net[i].filenames)
             /\ notice'.files = ServerDeletedFiles(net[i].filenames)]_vars

\* C10: a create-index, delete-index or delete-files request that ends with a
\* non-success status or a transport rejection leaves the registry list and
\* the selection as they were and shows an error notice.
C10_FailureLeavesStateAndNotifies ==
    [][\A i \in 1..Len(net) :
          (\/ Resolves(i, "index", "handleIndexClick", {"notok", "reject"})
           \/ Resolves(i, "deleteIndex", "handleDeleteIndexClick", {"notok", "reject"})
           \/ Resolves(i, "delete", "handleDeleteClick", {"notok", "reject"}))
          => /\ uploadedFiles' = uploadedFiles
             /\ selectedFiles' = selectedFiles
             /\ notice'.type = "error"]_vars

\* the registry lists the file as indexed
IndexedIn(files, n) ==
    \E k \in 1..Len(files) : files[k].name = n /\ files[k].indexed

\* C11: when the response of a create-index request lists failed files, no
\* error is shown and the notice names each failed file; and when the catalog
\* refresh that follows has ended, every requested file that did not fail is
\* listed as indexed in the registry.
C11_PartialIndexFailure ==
    [][/\ \A i \in 1..Len(net) :
             (Resolves(i, "index", "handleIndexClick", {"ok"})
                 /\ net'[Len(net')].failed # {})
             => /\ notice'.type # "error"
                /\ Range(notice'.files) = net'[Len(net')].failed
       /\ \A i \in 1..Len(net) :
             (Resolves(i, "list", "loadUploadedFiles", Outcomes)
                 /\ net' = RemoveAt(net, i))
             => \A n \in net[i].indexed : IndexedIn(uploadedFiles', n)]_vars

\* the file records the response of GET /uploads describes
Listed ==
    [k \in 1..Len(ServerList) |->
        [name |-> ServerList[k].filename, indexed |-> ServerList[k].indexed]]

\* C12: the step that ends a successful catalog refresh leaves the registry
\* list equal to the list of the response, the selection empty and the
\* select-all box unticked.
C12_RefreshReplacesAndClears ==
    [][\A i \in 1..Len(net) :
          (Resolves(i, "list", "loadUploadedFiles", {"ok"})
              /\ net' = RemoveAt(net, i))
          => /\ uploadedFiles' = Listed
             /\ selectedFiles' = <<>>
             /\ selectAll' = FALSE]_vars

\* C13: the step that ends a failed catalog refresh (non-success status or
\* rejection) leaves the registry list and the selection as they were and
\* shows an error notice.
C13_RefreshFailureReported ==
    [][\A i \in 1..Len(net) :
          (Resolves(i, "list", "loadUploadedFiles", {"notok", "reject"})
              /\ net' = RemoveAt(net, i))
          => /\ uploadedFiles' = uploadedFiles
             /\ selectedFiles' = selectedFiles
             /\ notice'.type = "error"]_vars

\* the place of the active session in the store, 0 when there is none
Active == Entry(chatHistories, currentChatId)

\* C14: on the chat page, whenever the active session is in the store, the
\* messages persisted for it are the messages of the in-memory view and its
\* persisted title is the title the list of chats shows for it.
C14_StoreMirrorsView ==
    (page = "chat" /\ Active # 0) =>
        /\ chatHistories[Active].messages = currentMessages
        /\ \A k \in 1..Len(chats) :
              chats[k].id = currentChatId =>
                 \E j \in 1..Len(chatHistories) :
                    /\ loadChats(chatHistories)[j].id = currentChatId
                    /\ loadChats(chatHistories)[j].title = chats[k].title

\* C15: when the reply of the first turn of a newly created session arrives
\* (the view holds the user message only, the stored session is still empty),
\* the title stored for the session is the first TitleLen characters of that
\* user message, with or without the ellipsis.
C15_TitleFromFirstUserMessage ==
    [][(page = "chat" /\ ChatResolves({"ok"}) /\ Active # 0
            /\ chatHistories[Active].messages = <<>>
            /\ Len(currentMessages) = 1
            /\ currentMessages[1].role = "user")
        => LET cut == slice(currentMessages[1].content, TitleLen)
           IN  chatHistories'[Active].title \in {cut, cut \o Ellipsis}]_vars

\* C16: when a reply is stored and the title is derived, from the message the
\* title is taken from, the title is that message itself if it has TitleLen
\* characters or fewer, and its first TitleLen characters followed by the
\* ellipsis if it is longer.
C16_EllipsisIffTruncated ==
    [][(page = "chat" /\ ChatResolves({"ok"}) /\ Active # 0
            /\ Len(currentMessages') > 1
            /\ currentMessages'[2].content # <<>>)
        => LET source == currentMessages'[2].content
           IN  chatHistories'[Active].title =
                  IF Len(source) > TitleLen
                  THEN slice(source, TitleLen) \o Ellipsis
                  ELSE source]_vars

\* C17: a send that goes out while the active pointer names no session of
\* the store leaves the pointer on a session that is in the store, with the
\* user message as the only message of the view.
C17_SendCreatesSession ==
    [][(page = "chat" /\ Active = 0 /\ ~chatReq.active /\ chatReq'.active
           /\ last'.op = "sendMessage" /\ last'.out = "sent")
        => /\ Entry(chatHistories', currentChatId') # 0
           /\ Len(currentMessages') = 1]_vars

\* C18: a step of newChat() adds one session to the store, after the sessions
\* that were there and with those unchanged, under an id none of them has,
\* with the placeholder title and no messages; that session is the active one
\* and the view is empty.
C18_NewSessionIsFresh ==
    [][(page = "chat" /\ last'.op = "newChat")
        => /\ Appended(chatHistories, chatHistories')
           /\ LET new == chatHistories'[Len(chatHistories')]
              IN  /\ \A k \in 1..Len(chatHistories) : chatHistories[k].id # new.id
                  /\ new.title = Placeholder
                  /\ new.messages = <<>>
                  /\ currentChatId' = new.id
                  /\ chatCurrentId' = new.id
           /\ currentMessages' = <<>>]_vars

\* C19: a confirmed delete of a session removes it from the store and leaves
\* the other sessions as they were; if it was the active session, the active
\* pointer (in memory and in localStorage) and the view are cleared, and if it
\* was not, they are unchanged.  On the chat page and on the history page.
C19_DeleteSessionFrame ==
    [][/\ (page = "chat" /\ confirm.kind \in ChatIds
              /\ last' = Label("handleChatCommand", "deleted"))
          => /\ chatHistories' = Delete(chatHistories, confirm.kind)
             /\ IF currentChatId = confirm.kind
                THEN /\ currentChatId' = JsNull
                     /\ chatCurrentId' = NullString
                     /\ currentMessages' = <<>>
                ELSE /\ currentChatId' = currentChatId
                     /\ chatCurrentId' = chatCurrentId
                     /\ currentMessages' = currentMessages
       /\ (page = "history" /\ confirm.kind = "deleteChat"
              /\ last' = Label("deleteChat", "deleted"))
          => /\ chatHistories' = Delete(chatHistories, confirm.id)
             /\ chatCurrentId' = IF chatCurrentId = confirm.id THEN NullString
                                 ELSE chatCurrentId]_vars

\* C20: a rename of a session that is in the store changes nothing but its
\* title: confirmed with a text, the title is that text; confirmed with an
\* empty input, or cancelled, the title is the placeholder.
C20_RenameSetsTitle ==
    [][(page = "chat" /\ confirm.kind = "rename"
           /\ last'.op = "handleChatCommand"
           /\ last'.out \in {"renamed", "rename cancelled"}
           /\ Entry(chatHistories, confirm.id) # 0)
        => LET k == Entry(chatHistories, confirm.id)
               value == last'.result.message
           IN  /\ chatHistories' =
                     [chatHistories EXCEPT
                         ![k].title =
                            IF last'.out = "renamed" /\ value # <<>>
                            THEN value ELSE Placeholder]
               /\ currentMessages' = currentMessages
               /\ currentChatId' = currentChatId]_vars

\* C21: the list of sessions is ordered most recently updated first: when a
\* reply is appended to the active session and persisted, that session is the
\* first of the list.
C21_UpdatedSessionListedFirst ==
    [][(page = "chat" /\ chatReq.active
           /\ last'.op = "sendMessage" /\ last'.out = "ok"
           /\ Active # 0)
        => chats'[1].id = currentChatId]_vars

\* C22: selectMethod(id) ends with id selected and id expanded, and in every
\* state at most one method id is expanded.
C22_SelectExpandsSelected ==
    /\ [](Cardinality({m \in Methods : expandedMethod = m}) <= 1)
    /\ [][(page = "rag" /\ last'.op = "selectMethod")
            => /\ selectedMethod' = last'.out
               /\ expandedMethod' = last'.out]_vars

C22_Witness ==
    /\ page = "rag"
    /\ last.op = "selectMethod"
    /\ last.out = "option7"
    /\ selectedMethod = "option7"
    /\ expandedMethod = "option7"

\* C23: toggling a method that is not the expanded one expands it and leaves
\* the selected method as it was.
C23_ExpandKeepsSelection ==
    [][(page \in {"app", "rag"}
           /\ last'.op \in {"toggleMethod", "toggleOption"}
           /\ expandedMethod # last'.out)
        => /\ expandedMethod' = last'.out
           /\ selectedMethod' = selectedMethod]_vars

\* C24: selectMethod(id) followed at once by toggleMethod(id) leaves no method
\* expanded and id still selected.
C24_SelectThenToggleCollapses ==
    [][(page = "rag" /\ last.op = "selectMethod"
           /\ last'.op = "toggleMethod" /\ last'.out = last.out)
        => /\ expandedMethod' = JsNull
           /\ selectedMethod' = last.out]_vars

C24_Witness ==
    /\ page = "rag"
    /\ last.op = "toggleMethod"
    /\ last.after = "selectMethod"
    /\ last.out = "option7"
    /\ expandedMethod = JsNull
    /\ selectedMethod = "option7"

\* C25: toggling a name of the filtered view flips its membership in the
\* selection and changes no other member; toggling a name that is not in the
\* filtered view changes neither the selection nor selectAll.
C25_ToggleFlipsOneMember ==
    [][(page = "rag" /\ last'.op = "toggleFileSelection")
        => LET name == last'.name
           IN  IF InSeq(name, NamesOf(rag_filteredFiles))
               THEN /\ InSeq(name, selectedFiles') = ~InSeq(name, selectedFiles)
                    /\ Range(selectedFiles') \ {name} = Range(selectedFiles) \ {name}
               ELSE /\ selectedFiles' = selectedFiles
                    /\ selectAll' = selectAll]_vars

\* the list the page shows
View == IF page = "app" THEN filteredFiles ELSE rag_filteredFiles

\* the records whose name contains the query, whatever the case of the letters
Containing(files, query) ==
    LET hit(file) == includes(toLowerCase(file.name), toLowerCase(query))
    IN  SelectSeq(files, hit)

\* C26, as stated: a new search query leaves the selection as it was, and the
\* filtered view is exactly the records whose name contains the query
\* case-insensitively.
C26_ViewContainsQuery ==
    [][(page \in {"app", "rag"} /\ last'.op = "setSearch")
        => /\ selectedFiles' = selectedFiles
           /\ View' = Containing(uploadedFiles', fileSearch')]_vars

\* C26, amended: a new search query leaves the selection and selectAll as they
\* were; the filtered view is the whole list when the query is blank (empty
\* after trimming), and otherwise exactly the records whose name contains the
\* query, untrimmed, case-insensitively.
C26_SearchOnlyFilters ==
    [][(page \in {"app", "rag"} /\ last'.op = "setSearch")
        => /\ selectedFiles' = selectedFiles
           /\ selectAll' = selectAll
           /\ uploadedFiles' = uploadedFiles
           /\ View' = IF trim(fileSearch') = <<>> THEN uploadedFiles'
                      ELSE Containing(uploadedFiles', fileSearch')]_vars

C26_Witness ==
    /\ page = "rag"
    /\ last.op = "setSearch"
    /\ fileSearch = <<"b">>
    /\ InSeq(FileA, selectedFiles)
    /\ NamesOf(rag_filteredFiles) = <<FileB>>
    /\ Len(uploadedFiles) = 2

\* C27: in every state the selection is a subset of the names of the filtered
\* view.
C27_SelectionWithinView ==
    page \in {"app", "rag"} => Range(selectedFiles) \subseteq Range(NamesOf(View))

\* the extension of a file name: what follows its last dot, nothing when the
\* name has no dot
Extension(name) == IF InSeq(".", name) THEN lastSegment(name) ELSE <<>>

\* C29: a file whose extension, in lower case, is not one of txt, md, csv, pdf,
\* doc, docx, xls, xlsx is rejected by the pre-check: no request is sent, and
\* the file list, the selection and the messages stay as they were.
C29_DisallowedTypeRejected ==
    [][(page \in {"app", "rag"} /\ last'.op = "beforeUpload"
           /\ (<<".">> \o toLowerCase(Extension(last'.name))) \notin allowedExtensions)
        => /\ net' = net
           /\ uploadedFiles' = uploadedFiles
           /\ selectedFiles' = selectedFiles
           /\ selectAll' = selectAll
           /\ messages' = messages]_vars

\* C28: the shell switches to the requested page on a message of the
\* recognized shape and changes nothing on any other message, and every
\* navigation message a page posts is of the recognized shape.
C28_PostedMessagesRecognized ==
    /\ [][(last'.op = "onChildMessage")
            => activePage' = IF Recognized(Head(mailbox)) THEN Head(mailbox).page
                             ELSE activePage]_vars
    /\ [][(last'.op \in {"goToPage", "continueChat"})
            => Recognized(mailbox'[Len(mailbox')])]_vars

\* C30: the file list changes only when a successful refresh replaces it; no
\* other handler appends, removes or patches a record.
C30_ListOnlyReplacedByRefresh ==
    [][(page \in {"app", "rag"} /\ uploadedFiles' # uploadedFiles)
        => /\ last'.op = "loadUploadedFiles"
           /\ last'.out = "ok"]_vars

\* C31: in every state no two records of the file list have the same name.
C31_NamesUnique ==
    page \in {"app", "rag"}
        => \A i, j \in 1..Len(uploadedFiles) :
              uploadedFiles[i].name = uploadedFiles[j].name => i = j

\* C32: an index or delete handler that finds the selection empty sends no
\* request, opens no prompt and leaves the list and the selection as they
\* were; and no index or delete request in flight has an empty name list.
C32_NoRequestForEmptySelection ==
    /\ [][(page \in {"app", "rag"} /\ last'.out = "empty")
            => /\ net' = net
               /\ confirm' = confirm
               /\ uploadedFiles' = uploadedFiles
               /\ selectedFiles' = selectedFiles]_vars
    /\ [](\A i \in 1..Len(net) :
             net[i].kind \in {"index", "deleteIndex", "delete"}
                => net[i].filenames # <<>>)

\* C36: the name list of the delete request is the selection the confirmation
\* prompt was built from.
C36_DeleteSendsPromptedNames ==
    [][(page = "app" /\ confirm.kind = "delete"
           /\ last'.op = "handleDeleteClick" /\ last'.out = "sent")
        => net'[Len(net')].filenames = confirm.names]_vars

\* C35: in every state of the file panel the selection holds only names of
\* records of the file list.
C35_SelectionWithinList ==
    page \in {"app", "rag"}
        => Range(selectedFiles) \subseteq Range(NamesOf(uploadedFiles))

\* C37: when a refresh resolves after a refresh issued later than it has
\* already resolved, and no refresh is left in flight, the file list is the
\* one the later refresh returned.
C37_LastIssuedRefreshWins ==
    [][(page = "app" /\ last'.op = "loadUploadedFiles")
        => \A i \in 1..Len(net) :
              (/\ net[i].kind = "list"
               /\ net[i].newer # <<>>
               /\ net' = RemoveAt(net, i)
               /\ \A k \in 1..Len(net') : net'[k].kind # "list")
              => uploadedFiles' = net[i].newer[1]]_vars

\* C33: the bot reply to a turn sent in session S changes no session of the
\* store other than S, and when S is still in the store its stored messages
\* end with that reply, whichever session is selected when the reply arrives.
C33_ReplyStoredInItsSession ==
    [][(page = "chat" /\ chatReq.active
           /\ last'.op = "sendMessage" /\ last'.out = "ok")
        => /\ \A k \in 1..Len(chatHistories) :
                 chatHistories[k].id # chatReq.session
                    => /\ k <= Len(chatHistories')
                       /\ chatHistories'[k] = chatHistories[k]
           /\ Entry(chatHistories, chatReq.session) # 0
                 => LET stored ==
                          chatHistories'[Entry(chatHistories, chatReq.session)].messages
                    IN  /\ stored # <<>>
                        /\ stored[Len(stored)].role = "bot"
                        /\ chatReq.at = Len(stored) - 1]_vars

\* the ids of the sessions in a store
StoredIds(histories) == {histories[k].id : k \in 1..Len(histories)}

\* C34: on the chat page no step brings back the id of a deleted session: a
\* reply that arrives, whatever its outcome, and a rename that is confirmed add
\* no id to the store, and the only step that adds one is the creation of a
\* session, under the id of the current clock value.
C34_DeletedSessionStaysDeleted ==
    [][page = "chat"
        => /\ last'.op = "sendMessage" /\ last'.out \in Outcomes
                 => StoredIds(chatHistories') \subseteq StoredIds(chatHistories)
           /\ last'.op = "handleChatCommand"
                 => StoredIds(chatHistories') \subseteq StoredIds(chatHistories)
           /\ StoredIds(chatHistories') \subseteq
                 StoredIds(chatHistories) \cup {ChatId(now)}]_vars

\* a reply has arrived after the session of its turn was deleted: the store
\* is still empty
C34_Witness ==
    /\ page = "chat"
    /\ last.op = "sendMessage" /\ last.out = "ok"
    /\ currentChatId = JsNull
    /\ chatHistories = <<>>
    /\ Len(currentMessages) = 1 /\ currentMessages[1].role = "bot"

\* C38: right after the chat page is mounted and right after it deletes a
\* session, its pointer is null or the id of a session in the store, and a
\* stored 'no current session' is held by the page as null.
C38_PointerNullOrStored ==
    (/\ page = "chat"
     /\ \/ last = Label("mounted", "done")
        \/ last = Label("handleChatCommand", "deleted"))
        => /\ currentChatId = JsNull \/ Entry(chatHistories, currentChatId) # 0
           /\ chatCurrentId = NullString => currentChatId = JsNull

====
